---- MODULE Spec2Model ----
(***************************************************************************)
(* A model of the ruledforward CoreDNS plugin: the rule matcher (exact     *)
(* set, label trie, keyword and regex lists, Bloom pre-filter), the group  *)
(* holding a matcher behind an atomic pointer, and the ServeDNS            *)
(* dispatcher.                                                             *)
(*                                                                         *)
(* A Go string is a sequence of one-character strings, so that lowercase   *)
(* folding, dns.Fqdn, strings.Split, strings.Contains and suffix tests are *)
(* computed and not assumed.                                               *)
(***************************************************************************)
EXTENDS Integers, Sequences, FiniteSets, TLC

\* ------------------------------------------------------------------ bounds

\* Longest authored rule value, in characters.
MaxValLen == 3
\* Longest query name handed to Match, in characters.
MaxQLen == 3
\* Most AddRule calls made on one matcher under test.
MaxRules == 2
\* Bits of the modelled Bloom filter.
BloomBits == 11
\* Hash locations per key of the modelled Bloom filter.
BloomK == 2

\* ----------------------------------------------------------------- strings

\* The authored alphabet: a lower-case letter, an upper-case letter, the dot.
Chars == {"a", "B", "."}

Lower(c) == IF c = "B" THEN "b" ELSE c

ToLower(s) == [i \in 1..Len(s) |-> Lower(s[i])]

IsFqdn(s) == Len(s) > 0 /\ s[Len(s)] = "."

Fqdn(s) == IF IsFqdn(s) THEN s ELSE Append(s, ".")

\* The elements of a sequence.
Range(q) == {q[i] : i \in 1..Len(q)}

\* All strings over alphabet cs of length at most n.
Strings(cs, n) == UNION {[1..k -> cs] : k \in 0..n}

\* strings.Index(s, "."): the first dot's position, 0 when there is none.
IndexDot(s) ==
    IF \E i \in 1..Len(s) : s[i] = "."
    THEN CHOOSE i \in 1..Len(s) : s[i] = "." /\ \A j \in 1..(i - 1) : s[j] # "."
    ELSE 0

TrimSuffixDot(s) == IF IsFqdn(s) THEN SubSeq(s, 1, Len(s) - 1) ELSE s

RECURSIVE Split(_)
Split(s) ==
    IF IndexDot(s) = 0 THEN <<s>>
    ELSE <<SubSeq(s, 1, IndexDot(s) - 1)>> \o Split(SubSeq(s, IndexDot(s) + 1, Len(s)))

IsPrefixOf(s, t) == Len(s) <= Len(t) /\ SubSeq(t, 1, Len(s)) = s

HasSuffix(s, t) == Len(t) <= Len(s) /\ SubSeq(s, Len(s) - Len(t) + 1, Len(s)) = t

Contains(s, t) == \E i \in 1..(Len(s) - Len(t) + 1) : SubSeq(s, i, i + Len(t) - 1) = t

\* ------------------------------------------------------------------- regex

\* The patterns of the modelled fragment of Go's regexp: an optional "^", a
\* body of literal letters and "." (any character), an optional "$"; a
\* pattern holding "(" has an unclosed group and does not compile.
RegexValues ==
    { <<"a">>, <<"B">>, <<"^", "b">>, <<"a", ".", "$">>, <<"(">> }

RegexCompiles(p) == \A i \in 1..Len(p) : p[i] # "("

RegexBody(p) ==
    LET lo == IF Len(p) > 0 /\ p[1] = "^" THEN 2 ELSE 1
        hi == IF Len(p) > 0 /\ p[Len(p)] = "$" THEN Len(p) - 1 ELSE Len(p)
    IN  SubSeq(p, lo, hi)

RegexMatchString(p, s) ==
    LET body == RegexBody(p)
        starts == IF Len(p) > 0 /\ p[1] = "^" THEN {1} ELSE 1..(Len(s) + 1)
    IN  \E i \in starts :
          /\ i + Len(body) - 1 <= Len(s)
          /\ \A k \in 1..Len(body) : body[k] = "." \/ body[k] = s[i + k - 1]
          /\ (Len(p) > 0 /\ p[Len(p)] = "$") => i + Len(body) - 1 = Len(s)

\* ------------------------------------------------------------------- rules

RuleDomain == "Domain"
RuleFull == "Full"
RuleKeyword == "Keyword"
RuleRegex == "Regex"

Rule(t, v) == [Type |-> t, Value |-> v]

\* ------------------------------------------------------------------ matcher

\* domainTrie: nil, or the set of its non-root nodes, each named by its path
\* of labels from the root (TLD first), and the nodes whose match flag is set.
NilTrie == [isNil |-> TRUE, nodes |-> {}, match |-> {}]

NewMatcher ==
    [full |-> {}, domain |-> <<>>, domainTrie |-> NilTrie,
     keyword |-> <<>>, regex |-> <<>>]

AddRule(m, r) ==
    LET val == ToLower(Fqdn(r.Value)) IN
    IF r.Type = RuleFull THEN [m EXCEPT !.full = @ \cup {val}]
    ELSE IF r.Type = RuleDomain THEN [m EXCEPT !.domain = Append(@, val)]
    ELSE IF r.Type = RuleKeyword THEN [m EXCEPT !.keyword = Append(@, ToLower(r.Value))]
    ELSE IF r.Type = RuleRegex /\ RegexCompiles(r.Value)
         THEN [m EXCEPT !.regex = Append(@, r.Value)]
    ELSE m

RECURSIVE ReverseNonEmpty(_)
ReverseNonEmpty(parts) ==
    IF parts = <<>> THEN <<>>
    ELSE ReverseNonEmpty(Tail(parts)) \o (IF Head(parts) # <<>> THEN <<Head(parts)>> ELSE <<>>)

domainLabels(fqdn) ==
    IF TrimSuffixDot(fqdn) = <<>> THEN <<>>
    ELSE ReverseNonEmpty(Split(TrimSuffixDot(fqdn)))

insertDomainTrie(trie, fqdn) ==
    LET labels == domainLabels(fqdn) IN
    IF Len(labels) = 0 THEN trie
    ELSE [isNil |-> FALSE,
          nodes |-> trie.nodes \cup {SubSeq(labels, 1, k) : k \in 1..Len(labels)},
          match |-> trie.match \cup {labels}]

\* node.children == nil: no child was ever inserted under the node.
ChildrenNil(trie, node) ==
    ~ \E p \in trie.nodes : Len(p) = Len(node) + 1 /\ SubSeq(p, 1, Len(node)) = node

\* The loop of matchDomainTrie from label i on, standing at node (nodeNil:
\* the lookup of the previous label found no child).
RECURSIVE TrieWalk(_, _, _, _, _)
TrieWalk(trie, labels, i, node, nodeNil) ==
    IF i > Len(labels) THEN ~nodeNil /\ node \in trie.match
    ELSE IF nodeNil THEN FALSE
    ELSE IF node \in trie.match THEN TRUE
    ELSE IF ChildrenNil(trie, node) THEN FALSE
    ELSE TrieWalk(trie, labels, i + 1, Append(node, labels[i]),
                  Append(node, labels[i]) \notin trie.nodes)

matchDomainTrie(m, qname) ==
    LET labels == domainLabels(qname) IN
    IF Len(labels) = 0 \/ m.domainTrie.isNil THEN FALSE
    ELSE TrieWalk(m.domainTrie, labels, 1, <<>>, FALSE)

RECURSIVE InsertAll(_, _)
InsertAll(trie, ds) ==
    IF ds = <<>> THEN trie ELSE InsertAll(insertDomainTrie(trie, Head(ds)), Tail(ds))

\* The orders slices.SortFunc may leave the domain slice in: longest first,
\* equal lengths in any order (the sort is not stable).
SeqPermutations(s) ==
    {[i \in 1..Len(s) |-> s[f[i]]] :
        f \in {g \in [1..Len(s) -> 1..Len(s)] : \A i, j \in 1..Len(s) : g[i] = g[j] => i = j}}

SortedLongestFirst(s) ==
    {t \in SeqPermutations(s) : \A i \in 1..(Len(t) - 1) : Len(t[i]) >= Len(t[i + 1])}

\* Build with the sort's outcome `sorted` (one of SortedLongestFirst(m.domain)).
Build(m, sorted) ==
    [m EXCEPT !.domainTrie = InsertAll(m.domainTrie, m.domain), !.domain = sorted]

Match(m, qname) ==
    LET q == ToLower(Fqdn(qname)) IN
    \/ q \in m.full
    \/ matchDomainTrie(m, q)
    \/ \E i \in 1..Len(m.keyword) : Contains(q, m.keyword[i])
    \/ \E i \in 1..Len(m.regex) : RegexMatchString(m.regex[i], q)

\* -------------------------------------------------------------------- Bloom

Code(c) == IF c = "a" THEN 1 ELSE IF c = "b" THEN 2 ELSE IF c = "." THEN 3 ELSE 4

RECURSIVE HashFrom(_, _, _)
HashFrom(key, i, acc) ==
    IF i > Len(key) THEN acc ELSE HashFrom(key, i + 1, acc * 5 + Code(key[i]))

\* The k bit locations of a key: double hashing over two base hashes.
BloomLocations(key) ==
    {(HashFrom(key, 1, 7) + j * (1 + HashFrom(key, 1, 3))) % BloomBits : j \in 0..(BloomK - 1)}

NewBloomFilter == {}

BloomAdd(bf, str) ==
    LET key == ToLower(Fqdn(str)) IN
    IF Len(key) = 0 THEN bf ELSE bf \cup BloomLocations(key)

BloomTest(bf, key) == BloomLocations(key) \subseteq bf

RECURSIVE ParentSuffixHit(_, _)
ParentSuffixHit(bf, q) ==
    IF IndexDot(q) = 0 THEN FALSE
    ELSE IF SubSeq(q, IndexDot(q) + 1, Len(q)) = <<>> THEN FALSE
    ELSE IF BloomTest(bf, SubSeq(q, IndexDot(q) + 1, Len(q))) THEN TRUE
    ELSE ParentSuffixHit(bf, SubSeq(q, IndexDot(q) + 1, Len(q)))

MaybeMatch(bf, qname) ==
    LET q == ToLower(Fqdn(qname)) IN
    BloomTest(bf, q) \/ ParentSuffixHit(bf, q)

\* ---------------------------------------------------------- bloomedMatcher

NewBloomedMatcher == [m |-> NewMatcher, bf |-> NewBloomFilter]

bloomedAddRule(bm, r) ==
    [m |-> AddRule(bm.m, r),
     bf |-> IF r.Type \in {RuleDomain, RuleFull} THEN BloomAdd(bm.bf, r.Value) ELSE bm.bf]

bloomedBuild(bm, sorted) == [bm EXCEPT !.m = Build(bm.m, sorted)]

bloomedMatch(bm, qname) == MaybeMatch(bm.bf, qname) /\ Match(bm.m, qname)

\* ================================================================ state

VARIABLES
    \* --- the matcher under test (specification SpecMatcher)
    bm,        \* the bloomedMatcher under construction or built; bm.m is the plain matcher
    added,     \* the rules passed to AddRule so far, in call order
    mstage,    \* "adding", "built" or "matched"
    mq,        \* the qname of the last Match call
    mres,      \* what the last call returned: Match, MaybeMatch, bloomed Match, and Match again
    \* --- the dispatcher (Ruledforward) and its groups
    from,          \* Ruledforward.from: the zone, lower-case and dot-terminated
    groups,        \* Ruledforward.groups: the Group records, in configured order
    defaultGroup,  \* Ruledforward.defaultGroup: an index into groups, 0 for nil
    matcher,       \* Group.matcher of each group: a heap address, 0 for nil
    heap,          \* the matcher objects allocated so far, by address
    \* --- the metrics
    requestsTotal,             \* requests_total{group, action}
    noMatchTotal,              \* no_match_total
    forwardUpstreamFailTotal,  \* forward_upstream_fail_total{group}
    \* --- the request handler (one goroutine inside ServeDNS)
    h,             \* its position, locals and what it did for the current request
    nreq,          \* requests started so far
    \* --- Group.Update and the readers of the pointer (specification SpecUpdate)
    upd,           \* the goroutine inside Update: its position and locals
    rd,            \* each reader: its position, the matcher it loaded, its qname and result
    stores,        \* the SetMatcher calls completed so far: address, matcher and mask
    \* --- the smaller specifications
    pol,           \* a Policy object, the pool handed to List and what List returned
    conf,          \* a configuration text (its group blocks) and what the parse made of it
    rf,            \* the refresh goroutine of a group, its stop channel and OnShutdown
    ing            \* a rule source being read (AdGuard text, catalog entries, inline tokens)

matcherVars == <<bm, added, mstage, mq, mres>>
configVars == <<from, groups, defaultGroup>>
ptrVars == <<matcher, heap>>
metricVars == <<requestsTotal, noMatchTotal, forwardUpstreamFailTotal>>
handlerVars == <<h, nreq>>
updateVars == <<upd, rd, stores>>
auxVars == <<pol, conf, rf, ing>>

vars == <<matcherVars, configVars, ptrVars, metricVars, handlerVars, updateVars, auxVars>>

\* ------------------------------------------------- inputs of the matcher

\* Every ingest path (inline entries, AdGuard lines, the geosite catalog)
\* drops an empty value, so authored values are non-empty.
RuleValues == Strings(Chars, MaxValLen) \ {<<>>}

AllRules ==
    {Rule(t, v) : t \in {RuleFull, RuleDomain, RuleKeyword}, v \in RuleValues}
        \cup {Rule(RuleRegex, v) : v \in RegexValues}

\* A name the DNS wire format can carry, in presentation form: the root, or
\* non-empty labels separated by single dots, the final dot optional.
WireName(s) ==
    /\ Len(s) >= 1
    /\ \/ s = <<".">>
       \/ /\ s[1] # "."
          /\ \A i \in 1..(Len(s) - 1) : ~(s[i] = "." /\ s[i + 1] = ".")

QNames == {s \in Strings(Chars, MaxQLen) : WireName(s)}

NoResult == [plain |-> FALSE, maybe |-> FALSE, bloomed |-> FALSE, again |-> FALSE]

\* ------------------------------------------- specification SpecMatcher

MatcherInit ==
    /\ bm = NewBloomedMatcher
    /\ added = <<>>
    /\ mstage = "adding"
    /\ mq = <<>>
    /\ mres = NoResult
    /\ from = <<".">>
    /\ groups = <<>>
    /\ defaultGroup = 0
    /\ matcher = <<>>
    /\ heap = <<>>
    /\ requestsTotal = <<>>
    /\ noMatchTotal = 0
    /\ forwardUpstreamFailTotal = <<>>
    /\ h = <<>>
    /\ nreq = 0
    /\ upd = <<>>
    /\ rd = <<>>
    /\ stores = <<>>
    /\ ing = <<>>
    /\ pol = <<>>
    /\ conf = <<>>
    /\ rf = <<>>

MatcherAddRule ==
    /\ mstage = "adding"
    /\ Len(added) < MaxRules
    /\ \E r \in AllRules :
         /\ bm' = bloomedAddRule(bm, r)
         /\ added' = Append(added, r)
    /\ UNCHANGED <<mstage, mq, mres, configVars, auxVars, updateVars, ptrVars, metricVars, handlerVars>>

MatcherBuild ==
    /\ mstage = "adding"
    /\ \E sorted \in SortedLongestFirst(bm.m.domain) : bm' = bloomedBuild(bm, sorted)
    /\ mstage' = "built"
    /\ UNCHANGED <<added, mq, mres, configVars, auxVars, updateVars, ptrVars, metricVars, handlerVars>>

MatcherMatch ==
    /\ mstage = "built"
    /\ \E q \in QNames :
         /\ mq' = q
         /\ mres' = [plain |-> Match(bm.m, q), maybe |-> MaybeMatch(bm.bf, q),
                     bloomed |-> bloomedMatch(bm, q), again |-> Match(bm.m, q)]
    /\ mstage' = "matched"
    /\ UNCHANGED <<bm, added, configVars, auxVars, updateVars, ptrVars, metricVars, handlerVars>>

MatcherNext == MatcherAddRule \/ MatcherBuild \/ MatcherMatch

SpecMatcher == MatcherInit /\ [][MatcherNext]_vars

\* =========================================================== dispatcher

\* Most groups of a configuration.
MaxGroups == 2
\* Most requests served in one run.
MaxRequests == 2
\* Most matcher objects allocated in one run.
MaxMatchers == 2
\* Most loop iterations and Connect attempts of one forwardGroup call.
MaxFwdSteps == 2

emptyTTL == 60

GName == <<"g1", "g2", "g3", "g4">>
GroupNames == {"default"} \cup {GName[i] : i \in 1..Len(GName)}
Actions == {"empty", "forward"}

\* proxy.Options, as far as forwardGroup reads it.
DefaultOpts == [ForceTCP |-> FALSE, PreferUDP |-> FALSE]

\* A Group as buildGroup leaves it: Proxies are proxy addresses 1..n, and
\* the rule sources start empty.
Group(name, action, proxies, policy, maxfails, opts) ==
    [Name |-> name, Action |-> action, Proxies |-> proxies, Policy |-> policy,
     Maxfails |-> maxfails, Opts |-> opts,
     GeositeNames |-> <<>>, InlineRules |-> <<>>, AdguardPaths |-> <<>>,
     AdguardURLs |-> <<>>]

\* buildGroup's checks: action empty forbids 'to', action forward requires it.
buildGroupOk(g) ==
    /\ ~(g.Action = "empty" /\ Len(g.Proxies) > 0)
    /\ ~(g.Action = "forward" /\ Len(g.Proxies) = 0)

\* A count that stops at the first group named default.
defaultCount_StopsAtOne(gs) ==
    IF \E i \in 1..Len(gs) : gs[i].Name = "default" THEN 1 ELSE 0

\* parseRuledforward's last loop: count the groups named default and cache
\* the last one; more than one is an error.
defaultCount(gs) == Cardinality({i \in 1..Len(gs) : gs[i].Name = "default"})

cachedDefault(gs) ==
    IF defaultCount(gs) = 0 THEN 0
    ELSE CHOOSE i \in 1..Len(gs) :
            gs[i].Name = "default" /\ \A j \in (i + 1)..Len(gs) : gs[j].Name # "default"

parseOk(gs) == defaultCount(gs) <= 1 /\ \A i \in 1..Len(gs) : buildGroupOk(gs[i])

\* Group.Matcher(): one atomic load of the pointer.
Matcher(g) == matcher[g]

\* A SetMatcher whose store never reaches the pointer.
SetMatcher_Lost(g, addr) == matcher' = matcher

\* Group.SetMatcher(m): one atomic store of the pointer.
SetMatcher(g, addr) == matcher' = [matcher EXCEPT ![g] = addr]

\* ------------------------------------------------------------- messages

Question(name, qtype) == [Name |-> name, Qtype |-> qtype]

\* dns.Msg, as far as the plugin reads and writes it.
Msg(id, response, rcode, question, ns, truncated) ==
    [Id |-> id, Response |-> response, Rcode |-> rcode, Question |-> question,
     Answer |-> <<>>, Ns |-> ns, Truncated |-> truncated]

RcodeSuccess == 0
RcodeFormatError == 1
RcodeServerFailure == 2

\* new(dns.Msg).SetReply(req)
SetReply(req) == Msg(req.Id, TRUE, RcodeSuccess, req.Question, <<>>, FALSE)

\* new(dns.Msg).SetRcode(req, rcode)
SetRcode(req, rcode) == [SetReply(req) EXCEPT !.Rcode = rcode]

\* An SOA whose minimum TTL is left at zero.
soaForEmpty_ZeroMinttl(origin) ==
    << [Name |-> origin, Ttl |-> emptyTTL, Class |-> "IN", Rrtype |-> "SOA",
        Ns |-> <<".">>, Mbox |-> <<".">>, Serial |-> 0, Refresh |-> 0, Retry |-> 0,
        Expire |-> 0, Minttl |-> 0] >>

soaForEmpty(origin) ==
    << [Name |-> origin, Ttl |-> emptyTTL, Class |-> "IN", Rrtype |-> "SOA",
        Ns |-> <<".">>, Mbox |-> <<".">>, Serial |-> 0, Refresh |-> 0, Retry |-> 0,
        Expire |-> 0, Minttl |-> emptyTTL] >>

\* request.Request.Name(): the question's name, lower-cased.
StateName(req) == ToLower(req.Question[1].Name)

\* The comparison without the type: any reply to the same name matches.
StateMatch_NameOnly(req, reply) ==
    /\ Len(reply.Question) = 1
    /\ reply.Response
    /\ ToLower(reply.Question[1].Name) = StateName(req)

\* request.Request.Match(reply)
StateMatch(req, reply) ==
    /\ Len(reply.Question) = 1
    /\ reply.Response
    /\ ToLower(reply.Question[1].Name) = StateName(req)
    /\ reply.Question[1].Qtype = req.Question[1].Qtype

\* plugin.Name(from).Matches(qname): equal, or qname is a subdomain of from
\* (every label of from, right to left, is a label of qname; case is folded).
NameMatches(zone, qname) ==
    \/ zone = qname
    \/ IsPrefixOf(ReverseNonEmpty(Split(TrimSuffixDot(ToLower(zone)))),
                  ReverseNonEmpty(Split(TrimSuffixDot(ToLower(qname)))))

\* ---------------------------------------------------------- rule sources

\* strings.TrimSpace, for the one white-space character of the alphabet.
RECURSIVE TrimLeft(_)
TrimLeft(s) == IF s # <<>> /\ Head(s) = " " THEN TrimLeft(Tail(s)) ELSE s

RECURSIVE TrimRight(_)
TrimRight(s) ==
    IF s # <<>> /\ s[Len(s)] = " " THEN TrimRight(SubSeq(s, 1, Len(s) - 1)) ELSE s

TrimSpace(s) == TrimRight(TrimLeft(s))

\* strings.Fields(s): the maximal runs of characters that are not spaces.
RECURSIVE Fields(_)
Fields(s) ==
    LET t == TrimLeft(s)
    IN  IF t = <<>> THEN <<>>
        ELSE LET sp == {i \in 1..Len(t) : t[i] = " "}
                 end == IF sp = {} THEN Len(t) + 1
                        ELSE CHOOSE i \in sp : \A j \in sp : i <= j
             IN  <<SubSeq(t, 1, end - 1)>> \o Fields(SubSeq(t, end, Len(t)))

\* strings.TrimSuffix(s, "^")
TrimSuffixCaret(s) ==
    IF s # <<>> /\ s[Len(s)] = "^" THEN SubSeq(s, 1, Len(s) - 1) ELSE s

\* isIP(s) (adguard.go, lines 72-74)
isIP(s) == Contains(s, <<".">>) \/ Contains(s, <<":">>)

\* The value is dot-terminated but keeps its case.
adguardHost_NoFold(v) == Fqdn(v)

\* strings.ToLower(dns.Fqdn(v)), as written for every Domain and Full value
\* of ParseAdguardRules (lines 38, 52, 59).
adguardHost(v) == ToLower(Fqdn(v))

\* One turn of the scanner loop of ParseAdguardRules (lines 23-64): the rules
\* the line adds, none or one.
adguardLine(text) ==
    LET line == TrimSpace(text)
        parts == Fields(line)
    IN  IF line = <<>> THEN <<>>
        ELSE IF line[1] = "#" \/ line[1] = "!" THEN <<>>
        ELSE IF IsPrefixOf(<<"@", "@">>, line) THEN <<>>
        ELSE IF IsPrefixOf(<<"|", "|">>, line)
        THEN LET rest == TrimSpace(TrimSuffixCaret(SubSeq(line, 3, Len(line))))
             IN  IF rest # <<>> THEN <<Rule(RuleDomain, adguardHost(rest))>> ELSE <<>>
        ELSE IF Len(line) >= 2 /\ line[1] = "/" /\ line[Len(line)] = "/"
        THEN <<Rule(RuleRegex, SubSeq(line, 2, Len(line) - 1))>>
        ELSE IF Len(parts) >= 2 /\ isIP(parts[1])
        THEN <<Rule(RuleFull, adguardHost(parts[2]))>>
        ELSE IF Len(parts) = 1 /\ adguardHost(TrimSpace(parts[1])) # <<".">>
        THEN <<Rule(RuleFull, adguardHost(TrimSpace(parts[1])))>>
        ELSE <<>>

\* domainToRule (dlc.go, line 77): the value of a catalog entry of any
\* type is trimmed and folded to lower case.
domainValue(t, v) == ToLower(TrimSpace(v))

\* domainToRule(d) (dlc.go, lines 73-95) on a catalog entry of type t
\* ("RootDomain", "Full", "Regex", "Plain", or a type the catalog does not
\* define) and value v: the rule it yields, if any.
domainToRule(t, v) ==
    LET val == domainValue(t, v)
    IN  IF val = <<>> THEN <<>>
        ELSE IF t = "RootDomain" THEN <<Rule(RuleDomain, val)>>
        ELSE IF t = "Full" THEN <<Rule(RuleFull, val)>>
        ELSE IF t = "Regex" THEN <<Rule(RuleRegex, val)>>
        ELSE IF t = "Plain" THEN <<Rule(RuleKeyword, val)>>
        ELSE <<>>

\* dns.IsDomainName(s), for names short enough that no length limit
\* applies: the empty string, a leading dot before anything else and two
\* dots in a row are refused.
IsDomainName(s) ==
    /\ s # <<>>
    /\ ~(Len(Fqdn(s)) > 1 /\ s[1] = ".")
    /\ ~Contains(Fqdn(s), <<".", ".">>)

\* A token of a group block that starts no known directive: the prefix it
\* starts with in any case ("domain:", "full:", "keyword:", "regex:", or ""
\* for none of them), the text after that prefix, and the argument that
\* follows it on its line, <<>> when there is none.
InlineToken(key, val, next) == [key |-> key, val |-> val, next |-> next]

\* parseInlineRule(directive, c) (setup.go, lines 344-390): whether it
\* returns an error, and the rule it returns, if any.
parseInlineRule(d) ==
    LET trimmed == TrimSpace(d.val)
        val == IF trimmed = <<>> THEN d.next ELSE trimmed
    IN  IF d.key \in {"domain:", "full:", "keyword:", "regex:"}
        THEN IF val = <<>> THEN [err |-> TRUE, rule |-> <<>>]
             ELSE IF d.key = "domain:"
             THEN [err |-> FALSE, rule |-> <<Rule(RuleDomain, ToLower(Fqdn(val)))>>]
             ELSE IF d.key = "full:"
             THEN [err |-> FALSE, rule |-> <<Rule(RuleFull, ToLower(Fqdn(val)))>>]
             ELSE IF d.key = "keyword:"
             THEN [err |-> FALSE, rule |-> <<Rule(RuleKeyword, ToLower(val))>>]
             ELSE [err |-> FALSE, rule |-> <<Rule(RuleRegex, val)>>]
        ELSE IF IsDomainName(d.val) /\ ~Contains(d.val, <<" ">>)
        THEN [err |-> FALSE, rule |-> <<Rule(RuleDomain, ToLower(Fqdn(d.val)))>>]
        ELSE [err |-> FALSE, rule |-> <<>>]

\* --------------------------------------------------------------- policy

\* roundRobin.robin is a uint32 that wraps to zero; the model wraps it at
\* RobinWrap, which leaves the same remainder as 2^32 on division by 2 and
\* by 3. The values a List call starts from: small ones and the last two,
\* from which the counter wraps within three calls.
RobinWrap == 16
RobinValues == {0, 1, 2, RobinWrap - 2, RobinWrap - 1}

\* random.List(p): p itself for one proxy, either order for two, and any
\* order rn.Perm may give for the rest.
randomList(p) ==
    IF Len(p) = 1 THEN {p}
    ELSE IF Len(p) = 2 THEN {<<p[2], p[1]>>, p}
    ELSE SeqPermutations(p)

\* roundRobin.List(p) with the counter at robin: the counter is advanced,
\* then reduced modulo the pool length, which panics (integer divide by
\* zero) for an empty pool; the proxy at that index is moved to the front.
roundRobinList(p, robin) ==
    LET r1 == (robin + 1) % RobinWrap
    IN  IF Len(p) = 0
        THEN [panic |-> TRUE, robin |-> r1, list |-> <<>>]
        ELSE LET i == r1 % Len(p)
             IN  [panic |-> FALSE, robin |-> r1,
                  list |-> <<p[i + 1]>> \o SubSeq(p, 1, i) \o SubSeq(p, i + 2, Len(p))]

\* sequential.List(p)
sequentialList(p) == p

\* Policy.List(p): the orders a policy may return for pool p. forwardGroup
\* calls it on a non-empty pool only, and never on a nil Policy.
PolicyList(policy, p) ==
    CASE policy = "sequential" -> {sequentialList(p)}
      [] policy = "random" -> randomList(p)
      [] policy = "round_robin" -> {roundRobinList(p, r).list : r \in RobinValues}
      [] OTHER -> {}

\* -------------------------------------------------------------- handler

NoReq == Msg(0, FALSE, RcodeSuccess, <<>>, <<>>, FALSE)
NoRet == [code |-> 0, err |-> "none"]
\* forwardGroup's locals; tick tells one pr.Connect call from the next.
\* Kept beside them for the current pass over the list: the proxies that
\* reported Down (downSeen); for the current attempt: how many truncation
\* retries it made (truncs) and the proxy that returned the truncated reply
\* (truncPr); and for the call: whether a Down proxy was tried with the pass
\* not all Down (blindPick).
NoFwd ==
    [g |-> 0, list |-> <<>>, i |-> 0, fails |-> 0, upstreamErr |-> "nil",
     pr |-> 0, ForceTCP |-> FALSE, expired |-> FALSE, cancelled |-> FALSE,
     tick |-> FALSE, downSeen |-> {}, truncs |-> 0, truncPr |-> 0,
     blindPick |-> FALSE]

\* A count that only needs to tell none, one and more than one.
UpToTwo(n) == IF n < 2 THEN n + 1 ELSE 2

\* The count of Connect calls, held at its bound once it reaches it.
Capped(n) == IF n < MaxFwdSteps THEN n + 1 ELSE n

IdleHandler ==
    [pc |-> "idle", req |-> NoReq, qname |-> <<>>, i |-> 0, loaded |-> 0,
     handledBy |-> 0, loadedAt |-> <<>>, replies |-> <<>>, nextCalls |-> 0,
     connects |-> 0, policyCalls |-> 0, got |-> NoReq, lateConnect |-> FALSE,
     upgraded |-> FALSE,
     ret |-> NoRet, fwd |-> NoFwd,
     noMatch0 |-> 0, requests0 |-> [l \in GroupNames \X Actions |-> 0],
     fail0 |-> [n \in GroupNames |-> 0]]

\* The question names of the requests, as the wire carries them.
ReqNames == { <<".">>, <<"a", ".">>, <<"B", ".">>, <<"B", ".", "a", ".">> }

Zones == { <<".">>, <<"a", ".">> }

\* plugin.NextOrFailure(r.Name(), r.Next, ctx, w, req): the request is handed
\* on; what the next plugin answers is its return value.
NextOrFailure(st) ==
    [st EXCEPT !.pc = "done", !.nextCalls = @ + 1, !.ret = [code |-> 0, err |-> "next"]]

\* The zone check left out: every name is taken to be in the zone.
OutOfZone_Never(qname) == FALSE

\* The zone check (line 150).
OutOfZone(qname) == from # <<".">> /\ ~NameMatches(from, qname)

\* The skip left out: the default group is scanned like any other.
IsDefaultName_Never(g) == FALSE

\* The skip of the default group in the scan (line 156).
IsDefaultName(g) == groups[g].Name = "default"

\* The miss test without the Match call: any loaded matcher is a hit.
GroupMisses_NilOnly(addr, qname) == addr = 0

\* The miss test of the scan (line 159): no matcher yet, or no match.
GroupMisses(addr, qname) == addr = 0 \/ ~bloomedMatch(heap[addr].bm, qname)

\* The increment left out.
NoMatchInc_Forgotten == noMatchTotal' = noMatchTotal

\* noMatchTotal.Inc() (line 195).
NoMatchInc == noMatchTotal' = noMatchTotal + 1

\* ServeDNS up to the zone check (lines 146-152).
ServeStart ==
    /\ h.pc = "idle"
    /\ nreq < MaxRequests
    /\ nreq' = nreq + 1
    /\ \E name \in ReqNames :
         LET req == Msg(1, FALSE, RcodeSuccess, <<Question(name, "A")>>, <<>>, FALSE)
             st == [IdleHandler EXCEPT !.req = req, !.qname = StateName(req),
                                       !.noMatch0 = noMatchTotal,
                                       !.requests0 = requestsTotal,
                                       !.fail0 = forwardUpstreamFailTotal]
         IN  h' = IF OutOfZone(StateName(req))
                  THEN NextOrFailure(st)
                  ELSE [st EXCEPT !.pc = "scan", !.i = 1]
    /\ UNCHANGED <<matcherVars, configVars, auxVars, updateVars, ptrVars, metricVars>>

\* The "empty" case of either switch: count, reply NODATA with the SOA, return.
ApplyEmpty(g) ==
    /\ requestsTotal' = [requestsTotal EXCEPT ![<<groups[g].Name, "empty">>] = @ + 1]
    /\ h' = [h EXCEPT !.pc = "done", !.handledBy = g,
                      !.replies = Append(@, [SetReply(h.req) EXCEPT !.Ns = soaForEmpty(h.qname)]),
                      !.ret = [code |-> 0, err |-> "nil"]]
    /\ UNCHANGED <<noMatchTotal, forwardUpstreamFailTotal>>

\* The entry without the check of the pool: the policy is always called.
forwardGroupEntry_NoLenCheck(st, g) ==
    {[st EXCEPT !.pc = "fwd", !.policyCalls = @ + 1,
                !.fwd = [NoFwd EXCEPT !.g = g, !.list = list]] :
        list \in PolicyList(groups[g].Policy, groups[g].Proxies)}

\* forwardGroup up to its loop (lines 204-212), entered from handler state
\* st for group g: the states it may go on from.
forwardGroupEntry(st, g) ==
    IF Len(groups[g].Proxies) = 0
    THEN {[st EXCEPT !.pc = "done",
                     !.ret = [code |-> RcodeServerFailure, err |-> "errNoHealthy"]]}
    ELSE {[st EXCEPT !.pc = "fwd", !.policyCalls = @ + 1,
                     !.fwd = [NoFwd EXCEPT !.g = g, !.list = list]] :
            list \in PolicyList(groups[g].Policy, groups[g].Proxies)}

\* The "forward" case of either switch: count, then call forwardGroup.
ApplyForward(g) ==
    /\ requestsTotal' = [requestsTotal EXCEPT ![<<groups[g].Name, "forward">>] = @ + 1]
    /\ h' \in forwardGroupEntry([h EXCEPT !.handledBy = g], g)
    /\ UNCHANGED <<noMatchTotal, forwardUpstreamFailTotal>>

\* One head of the group loop (lines 154-159): skip the default group, or
\* load the group's matcher; past the last group, the default group's
\* action or the pass-through (lines 179-196).
ServeScan ==
    /\ h.pc = "scan"
    /\ IF h.i <= Len(groups)
       THEN /\ h' = IF IsDefaultName(h.i)
                    THEN [h EXCEPT !.i = @ + 1]
                    ELSE [h EXCEPT !.pc = "match", !.loaded = Matcher(h.i),
                                   !.loadedAt = (h.i :> Matcher(h.i)) @@ @]
            /\ UNCHANGED metricVars
       ELSE IF defaultGroup # 0 /\ groups[defaultGroup].Action = "empty"
            THEN ApplyEmpty(defaultGroup)
       ELSE IF defaultGroup # 0 /\ groups[defaultGroup].Action = "forward"
            THEN ApplyForward(defaultGroup)
       ELSE /\ NoMatchInc
            /\ h' = NextOrFailure(h)
            /\ UNCHANGED <<requestsTotal, forwardUpstreamFailTotal>>
    /\ UNCHANGED <<matcherVars, configVars, auxVars, updateVars, ptrVars, nreq>>

\* The rest of one iteration (lines 159-176): Match on the loaded matcher,
\* then the switch on the group's action.
ServeMatch ==
    /\ h.pc = "match"
    /\ IF GroupMisses(h.loaded, h.qname)
       THEN /\ h' = [h EXCEPT !.pc = "scan", !.i = @ + 1]
            /\ UNCHANGED metricVars
       ELSE IF groups[h.i].Action = "empty" THEN ApplyEmpty(h.i)
       ELSE IF groups[h.i].Action = "forward" THEN ApplyForward(h.i)
       ELSE /\ h' = [h EXCEPT !.pc = "scan", !.i = @ + 1]
            /\ UNCHANGED metricVars
    /\ UNCHANGED <<matcherVars, configVars, auxVars, updateVars, ptrVars, nreq>>

\* ServeDNS has returned; the goroutine is free for the next request.
ServeReturn ==
    /\ h.pc = "done"
    /\ nreq < MaxRequests
    /\ h' = IdleHandler
    /\ UNCHANGED <<matcherVars, configVars, auxVars, updateVars, ptrVars, metricVars, nreq>>

\* --------------------------------------------------------- forwardGroup

\* The replies an upstream may send to req: the matching reply, the same
\* truncated, the same with its name in lower case, a reply to another
\* name, a reply to another type, and the query echoed without the response
\* flag.  Connect itself drops messages whose id is not the request's, so
\* every message it returns carries req.Id.
UpstreamReplies(req) ==
    { Msg(req.Id, TRUE, RcodeSuccess, req.Question, <<>>, FALSE),
      Msg(req.Id, TRUE, RcodeSuccess, req.Question, <<>>, TRUE),
      Msg(req.Id, TRUE, RcodeSuccess,
          <<Question(ToLower(req.Question[1].Name), req.Question[1].Qtype)>>, <<>>, FALSE),
      Msg(req.Id, TRUE, RcodeSuccess, <<Question(<<"a", "a", ".">>, "A")>>, <<>>, FALSE),
      Msg(req.Id, TRUE, RcodeSuccess, <<Question(req.Question[1].Name, "AAAA")>>, <<>>, FALSE),
      Msg(req.Id, FALSE, RcodeSuccess, req.Question, <<>>, FALSE) }

\* What pr.Connect may return: a reply and no error, no reply and an error
\* (proxy.ErrCachedClosed or another), or a reply together with an error.
ConnectOutcomes(req) ==
    {[hasRet |-> TRUE, ret |-> r, err |-> "nil"] : r \in UpstreamReplies(req)}
        \cup {[hasRet |-> FALSE, ret |-> NoReq, err |-> e] : e \in {"ErrCachedClosed", "error"}}
        \cup {[hasRet |-> TRUE, ret |-> Msg(req.Id, TRUE, RcodeSuccess, req.Question, <<>>, TRUE),
               err |-> "error"]}

\* The code after the loop with the increment left out.
ForwardFail_NoInc(st) ==
    /\ h' = [st EXCEPT !.pc = "done", !.fwd = NoFwd,
                       !.ret = [code |-> RcodeServerFailure,
                                err |-> IF st.fwd.upstreamErr # "nil"
                                        THEN st.fwd.upstreamErr ELSE "errNoHealthy"]]
    /\ UNCHANGED metricVars

\* The code after the loop (lines 267-271), reached from handler state st.
\* forwardGroup's locals end with the call.
ForwardFail(st) ==
    /\ forwardUpstreamFailTotal' =
         [forwardUpstreamFailTotal EXCEPT ![groups[st.fwd.g].Name] = @ + 1]
    /\ h' = [st EXCEPT !.pc = "done", !.fwd = NoFwd,
                       !.ret = [code |-> RcodeServerFailure,
                                err |-> IF st.fwd.upstreamErr # "nil"
                                        THEN st.fwd.upstreamErr ELSE "errNoHealthy"]]
    /\ UNCHANGED <<requestsTotal, noMatchTotal>>

\* The deadline passes while forwardGroup runs.
DeadlinePasses ==
    /\ h.pc \in {"fwd", "connect"}
    /\ ~h.fwd.expired
    /\ h' = [h EXCEPT !.fwd.expired = TRUE]
    /\ UNCHANGED <<matcherVars, configVars, auxVars, updateVars, ptrVars, metricVars, nreq>>

\* The request's context is cancelled while forwardGroup runs.
CtxCancel ==
    /\ h.pc \in {"fwd", "connect"}
    /\ ~h.fwd.cancelled
    /\ h' = [h EXCEPT !.fwd.cancelled = TRUE]
    /\ UNCHANGED <<matcherVars, configVars, auxVars, updateVars, ptrVars, metricVars, nreq>>

\* A Down proxy is never skipped.
SkipDown_Never(fails, g) == FALSE

\* Whether a proxy that reports Down is skipped (line 223): fails counts it
\* already.
SkipDown(fails, g) == fails < Len(g.Proxies)

\* The attempt goes on with the options the last attempt ended with.
AttemptForceTCP_Kept(f, g) == f.ForceTCP

\* opts := g.Opts (line 229): every attempt starts from the group's stored
\* options, which forwardGroup copies and never writes.
AttemptForceTCP(f, g) == g.Opts.ForceTCP

\* One head of the outer loop (lines 214-229): the loop condition, the pick
\* of the next proxy and its Down check.
ForwardLoop ==
    /\ h.pc = "fwd"
    /\ LET f == h.fwd
           g == groups[h.fwd.g]
       IN  IF f.expired \/ f.cancelled
           THEN ForwardFail(h)
           ELSE /\ \E down \in BOOLEAN :
                     LET wrap == f.i >= Len(f.list)
                         i0 == IF wrap THEN 0 ELSE f.i
                         fails0 == IF wrap THEN 0 ELSE f.fails
                         fails1 == IF down THEN fails0 + 1 ELSE fails0
                         seen0 == IF wrap THEN {} ELSE f.downSeen
                         seen1 == IF down THEN seen0 \cup {f.list[i0 + 1]} ELSE seen0
                         f1 == [f EXCEPT !.i = i0 + 1, !.fails = fails1, !.downSeen = seen1]
                     IN  IF down /\ SkipDown(fails1, g)
                         THEN h' = [h EXCEPT !.fwd = f1]
                         ELSE h' = [h EXCEPT !.pc = "connect",
                                      !.upgraded = FALSE,
                                      !.fwd = [f1 EXCEPT !.pr = IF down THEN f.list[1] ELSE f.list[i0 + 1],
                                                         !.blindPick = @ \/ (down /\ seen1 # Range(g.Proxies)),
                                                         !.truncs = 0, !.truncPr = 0,
                                                         !.ForceTCP = AttemptForceTCP(f, g)]]
                /\ UNCHANGED metricVars
    /\ UNCHANGED <<matcherVars, configVars, auxVars, updateVars, ptrVars, nreq>>

\* The reply is written and forwardGroup returns, but the loop is entered
\* again as if it had not.
WriteAndReturn_NoReturn(st, reply) ==
    [st EXCEPT !.pc = "fwd", !.replies = Append(@, reply),
               !.ret = [code |-> 0, err |-> "nil"]]

\* w.WriteMsg(reply) and return 0, nil (lines 259-260, 263-264), from
\* handler state st.
WriteAndReturn(st, reply) ==
    [st EXCEPT !.pc = "done", !.fwd = NoFwd, !.replies = Append(@, reply),
               !.ret = [code |-> 0, err |-> "nil"]]

\* One pr.Connect call of the inner loop and what follows it (lines 232-264).
ForwardConnect ==
    /\ h.pc = "connect"
    /\ \E out \in ConnectOutcomes(h.req) :
         LET f == h.fwd
             g == groups[h.fwd.g]
             st == [h EXCEPT !.connects = Capped(@),
                             !.lateConnect = @ \/ h.replies # <<>>,
                             !.fwd.tick = ~@]
         IN  IF out.err = "ErrCachedClosed"
             THEN /\ h' = st
                  /\ UNCHANGED metricVars
             ELSE IF out.hasRet /\ out.ret.Truncated /\ ~f.ForceTCP /\ g.Opts.PreferUDP
             THEN /\ h' = [st EXCEPT !.fwd.ForceTCP = TRUE, !.upgraded = TRUE,
                                     !.fwd.truncs = UpToTwo(@), !.fwd.truncPr = f.pr]
                  /\ UNCHANGED metricVars
             ELSE IF out.err # "nil"
             THEN IF f.fails < Len(g.Proxies)
                  THEN /\ h' = [st EXCEPT !.pc = "fwd", !.fwd.upstreamErr = out.err]
                       /\ UNCHANGED metricVars
                  ELSE ForwardFail([st EXCEPT !.fwd.upstreamErr = out.err])
             ELSE /\ h' = WriteAndReturn([st EXCEPT !.got = out.ret],
                                          IF StateMatch(h.req, out.ret)
                                          THEN out.ret
                                          ELSE SetRcode(h.req, RcodeFormatError))
                  /\ UNCHANGED metricVars
    /\ UNCHANGED <<matcherVars, configVars, auxVars, updateVars, ptrVars, nreq>>

\* ------------------------------------------------- specification Spec

\* The rule lists a published matcher is built from.
DispatchRuleLists ==
    { <<>>, <<Rule(RuleDomain, <<"a", ".">>)>>, <<Rule(RuleFull, <<"B", ".", "a">>)>> }

RECURSIVE AddRules(_, _)
AddRules(b, rules) ==
    IF rules = <<>> THEN b ELSE AddRules(bloomedAddRule(b, Head(rules)), Tail(rules))

DefaultMaxfails == 2

\* The configurations parseRuledforward accepts, with at most n groups.
GroupConfigs(n) ==
    {gs \in UNION {[1..k -> [Name : GroupNames, Action : Actions]] : k \in 0..n} :
        \A i \in 1..Len(gs) : gs[i].Name \in {"default", GName[i]}}

ConfiguredGroup(c) ==
    IF c.Action = "forward"
    THEN Group(c.Name, c.Action, <<1>>, "sequential", DefaultMaxfails, DefaultOpts)
    ELSE Group(c.Name, c.Action, <<>>, "nil", DefaultMaxfails, DefaultOpts)

MatcherIdle ==
    /\ bm = NewBloomedMatcher
    /\ added = <<>>
    /\ mstage = "adding"
    /\ mq = <<>>
    /\ mres = NoResult

Init ==
    /\ MatcherIdle
    /\ from \in Zones
    /\ groups \in {[i \in 1..Len(c) |-> ConfiguredGroup(c[i])] : c \in GroupConfigs(MaxGroups)}
    /\ parseOk(groups)
    /\ defaultGroup = cachedDefault(groups)
    /\ matcher = [i \in 1..Len(groups) |-> 0]
    /\ heap = <<>>
    /\ requestsTotal = [l \in GroupNames \X Actions |-> 0]
    /\ noMatchTotal = 0
    /\ forwardUpstreamFailTotal = [n \in GroupNames |-> 0]
    /\ h = IdleHandler
    /\ nreq = 0
    /\ upd = <<>>
    /\ rd = <<>>
    /\ stores = <<>>
    /\ ing = <<>>
    /\ pol = <<>>
    /\ conf = <<>>
    /\ rf = <<>>

\* A matcher is built from a rule list and published to a group: what
\* updateMatcher does (NewBloomedMatcher, AddRule for every rule its sources
\* yield, Build, SetMatcher), the construction being private to its caller.
PublishMatcher ==
    /\ Len(heap) < MaxMatchers
    /\ \E g \in 1..Len(groups), rules \in DispatchRuleLists :
         \E sorted \in SortedLongestFirst(AddRules(NewBloomedMatcher, rules).m.domain) :
           /\ heap' = Append(heap, [bm |-> bloomedBuild(AddRules(NewBloomedMatcher, rules), sorted),
                                    built |-> TRUE])
           /\ SetMatcher(g, Len(heap) + 1)
    /\ UNCHANGED <<matcherVars, configVars, auxVars, updateVars, metricVars, handlerVars>>

Next ==
    \/ PublishMatcher
    \/ ServeStart
    \/ ServeScan
    \/ ServeMatch
    \/ ServeReturn
    \/ ForwardLoop
    \/ ForwardConnect
    \/ DeadlinePasses
    \/ CtxCancel

Spec == Init /\ [][Next]_vars

\* ---------------------------------------------- specification SpecForward

\* forwardGroup called directly, as the tests call it, on one group built by
\* hand: a pool of none, one or two proxies, any of the three policies, and
\* the options forwardGroup reads.
ForwardPools == { <<>>, <<1>>, <<1, 2>> }
Policies == {"sequential", "round_robin", "random"}
ForwardOpts == [ForceTCP : BOOLEAN, PreferUDP : BOOLEAN]

\* The question name of the requests handed to forwardGroup.
ForwardReqNames == { <<"B", ".", "a", ".">> }

ForwardInit ==
    /\ MatcherIdle
    /\ from = <<".">>
    /\ groups \in {<<Group("g1", "forward", p, pl, DefaultMaxfails, o)>> :
                     p \in ForwardPools, pl \in Policies, o \in ForwardOpts}
    /\ defaultGroup = 0
    /\ matcher = <<0>>
    /\ heap = <<>>
    /\ requestsTotal = [l \in GroupNames \X Actions |-> 0]
    /\ noMatchTotal = 0
    /\ forwardUpstreamFailTotal = [n \in GroupNames |-> 0]
    /\ h = IdleHandler
    /\ nreq = 0
    /\ upd = <<>>
    /\ rd = <<>>
    /\ stores = <<>>
    /\ ing = <<>>
    /\ pol = <<>>
    /\ conf = <<>>
    /\ rf = <<>>

\* r.forwardGroup(ctx, w, req, state, g) is called on group 1 (lines 204-212).
ForwardCall ==
    /\ h.pc = "idle"
    /\ nreq < MaxRequests
    /\ nreq' = nreq + 1
    /\ \E name \in ForwardReqNames :
         LET req == Msg(1, FALSE, RcodeSuccess, <<Question(name, "A")>>, <<>>, FALSE)
             st == [IdleHandler EXCEPT !.req = req, !.qname = StateName(req),
                                       !.noMatch0 = noMatchTotal,
                                       !.requests0 = requestsTotal,
                                       !.fail0 = forwardUpstreamFailTotal]
         IN  h' \in forwardGroupEntry(st, 1)
    /\ UNCHANGED <<matcherVars, configVars, auxVars, updateVars, ptrVars, metricVars>>

ForwardNext ==
    \/ ForwardCall
    \/ ForwardLoop
    \/ ForwardConnect
    \/ DeadlinePasses
    \/ CtxCancel
    \/ ServeReturn

SpecForward == ForwardInit /\ [][ForwardNext]_vars

\* The goroutine running forwardGroup keeps running, and every pr.Connect
\* call returns: the loop head and the Connect step are taken when they can
\* be. The deadline, the cancellation and new calls come from outside.
SpecForwardFair ==
    SpecForward /\ WF_vars(ForwardLoop) /\ WF_vars(ForwardConnect)

\* ----------------------------------------------- specification SpecPolicy

\* The List methods called on their own, as the tests call them: a policy
\* object, a pool of up to MaxPool proxies, and up to MaxListCalls calls.
MaxPool == 3
MaxListCalls == 3
ProxyIds == 1..MaxPool

PolicyPools ==
    {p \in UNION {[1..k -> ProxyIds] : k \in 0..MaxPool} :
        \A i, j \in 1..Len(p) : i # j => p[i] # p[j]}

PolicyInit ==
    /\ MatcherIdle
    /\ from = <<".">>
    /\ groups = <<>>
    /\ defaultGroup = 0
    /\ matcher = <<>>
    /\ heap = <<>>
    /\ requestsTotal = [l \in GroupNames \X Actions |-> 0]
    /\ noMatchTotal = 0
    /\ forwardUpstreamFailTotal = [n \in GroupNames |-> 0]
    /\ h = IdleHandler
    /\ nreq = 0
    /\ upd = <<>>
    /\ rd = <<>>
    /\ stores = <<>>
    /\ ing = <<>>
    /\ \E pl \in Policies, p \in PolicyPools :
         \E r \in (IF pl = "round_robin" THEN RobinValues ELSE {0}) :
            pol = [policy |-> pl, robin |-> r, pool |-> p, calls |-> 0,
                   panicked |-> FALSE, out |-> <<>>, firsts |-> <<>>]
    /\ conf = <<>>
    /\ rf = <<>>

PolicyFrame ==
    UNCHANGED <<matcherVars, configVars, conf, rf, ing, updateVars, ptrVars, metricVars, h, nreq>>

\* (*sequential).List(p)
SequentialListCall ==
    /\ pol.policy = "sequential"
    /\ ~pol.panicked
    /\ pol.calls < MaxListCalls
    /\ pol' = [pol EXCEPT !.calls = @ + 1, !.out = sequentialList(pol.pool)]
    /\ PolicyFrame

\* (*random).List(p)
RandomListCall ==
    /\ pol.policy = "random"
    /\ ~pol.panicked
    /\ pol.calls < MaxListCalls
    /\ \E l \in randomList(pol.pool) :
         pol' = [pol EXCEPT !.calls = @ + 1, !.out = l]
    /\ PolicyFrame

\* (*roundRobin).List(p): the counter is advanced before the division, so
\* it keeps its new value when the call panics. firsts keeps the first
\* element of every list returned so far.
RoundRobinListCall ==
    /\ pol.policy = "round_robin"
    /\ ~pol.panicked
    /\ pol.calls < MaxListCalls
    /\ LET res == roundRobinList(pol.pool, pol.robin)
       IN  pol' = [pol EXCEPT !.calls = @ + 1, !.robin = res.robin,
                              !.panicked = res.panic, !.out = res.list,
                              !.firsts = IF res.panic THEN @ ELSE Append(@, res.list[1])]
    /\ PolicyFrame

PolicyNext ==
    \/ SequentialListCall
    \/ RandomListCall
    \/ RoundRobinListCall

SpecPolicy == PolicyInit /\ [][PolicyNext]_vars

\* ------------------------------------------------ specification SpecParse

\* parseRuledforward reading a configuration block by block, directive by
\* directive. At most MaxBlocks group blocks are read, and a block names at
\* most MaxPaths rule files and holds at most MaxInline inline rules.
MaxBlocks == 2
MaxPaths == 1
MaxInline == 1
maxProxies == 15

ConfNames == {"default", "g1"}

\* The arguments of a 'to' directive: an address, a resolv.conf file naming
\* no server, one naming two, one naming sixteen, an address with a
\* transport the plugin does not allow, and a word that is neither.
ToArgs ==
    { <<>>, <<"ip">>, <<"file0">>, <<"ip", "file2">>, <<"file16">>,
      <<"https">>, <<"bad">> }

\* The tokens of a group block that start no known directive: an inline
\* rule, a prefix with no value, a bare domain name, and a bare token that is
\* no domain name.
ParseTokens ==
    { InlineToken("regex:", <<"B">>, <<>>), InlineToken("domain:", <<>>, <<>>),
      InlineToken("", <<"a">>, <<>>), InlineToken("", <<"a", ".", ".">>, <<>>) }

\* The directives of a group block, as far as buildGroup reads their result,
\* and the tokens that reach the default case of parseGroupDirective.
Directives ==
    {[key |-> "action", arg |-> a] : a \in {"forward", "empty", "drop"}}
        \cup {[key |-> "to", arg |-> t] : t \in ToArgs}
        \cup {[key |-> "policy", arg |-> pl] : pl \in {"round_robin", "bogus"}}
        \cup {[key |-> "adguard_rules", arg |-> <<"path">>]}
        \cup {[key |-> "include:", arg |-> <<>>]}
        \cup {[key |-> "token", arg |-> t] : t \in ParseTokens}

\* The groupBuild a group block starts from (lines 91-97).
NewGroupBuild(name) ==
    [Name |-> name, Action |-> "forward", toHosts |-> <<>>, policy |-> "",
     adguardPaths |-> <<>>, inlineRules |-> <<>>, maxfails |-> DefaultMaxfails]

\* parseGroupDirective(c, gb) on directive d: whether it fails, and gb after.
parseGroupDirective(gb, d) ==
    CASE d.key = "action" ->
           [err |-> d.arg \notin {"forward", "empty"}, gb |-> [gb EXCEPT !.Action = d.arg]]
      [] d.key = "to" ->
           [err |-> Len(d.arg) = 0, gb |-> [gb EXCEPT !.toHosts = d.arg]]
      [] d.key = "policy" ->
           [err |-> FALSE, gb |-> [gb EXCEPT !.policy = d.arg]]
      [] d.key = "adguard_rules" ->
           [err |-> Len(d.arg) = 0, gb |-> [gb EXCEPT !.adguardPaths = @ \o d.arg]]
      [] d.key = "include:" ->
           [err |-> TRUE, gb |-> gb]
      [] d.key = "token" ->
           [err |-> parseInlineRule(d.arg).err,
            gb |-> [gb EXCEPT !.inlineRules = @ \o parseInlineRule(d.arg).rule]]

\* The servers one argument of 'to' stands for, by transport.
RECURSIVE Repeat(_, _)
Repeat(x, n) == IF n = 0 THEN <<>> ELSE <<x>> \o Repeat(x, n - 1)

ServersOf(t) ==
    CASE t = "ip" -> <<"dns">>
      [] t = "file0" -> <<>>
      [] t = "file2" -> <<"dns", "dns">>
      [] t = "file16" -> Repeat("dns", maxProxies + 1)
      [] t = "https" -> <<"https">>
      [] OTHER -> <<>>

RECURSIVE AllServers(_)
AllServers(ts) == IF ts = <<>> THEN <<>> ELSE ServersOf(Head(ts)) \o AllServers(Tail(ts))

\* The same without the error for an empty result.
HostPortOrFile_AllowsNone(ts) ==
    [err |-> \E i \in 1..Len(ts) : ts[i] = "bad",
     servers |-> AllServers(ts)]

\* parse.HostPortOrFile(hosts...): an argument that is neither an address
\* nor a file is an error, and so is an empty result.
HostPortOrFile(ts) ==
    [err |-> (\E i \in 1..Len(ts) : ts[i] = "bad") \/ Len(AllServers(ts)) = 0,
     servers |-> AllServers(ts)]

\* buildGroup(gb) (lines 276-342): whether it fails, and the Group it builds.
buildGroup(gb) ==
    IF gb.Action = "empty" /\ Len(gb.toHosts) > 0 THEN [err |-> TRUE, g |-> <<>>]
    ELSE IF gb.Action = "forward" /\ Len(gb.toHosts) = 0 THEN [err |-> TRUE, g |-> <<>>]
    ELSE IF gb.Action # "forward"
    THEN [err |-> FALSE,
          g |-> [Group(gb.Name, gb.Action, <<>>, "nil", gb.maxfails, DefaultOpts)
                    EXCEPT !.AdguardPaths = gb.adguardPaths,
                                    !.InlineRules = gb.inlineRules]]
    ELSE LET hp == HostPortOrFile(gb.toHosts)
         IN  IF hp.err THEN [err |-> TRUE, g |-> <<>>]
             ELSE IF Len(hp.servers) > maxProxies THEN [err |-> TRUE, g |-> <<>>]
             ELSE IF \E i \in 1..Len(hp.servers) : hp.servers[i] \notin {"dns", "tls"}
             THEN [err |-> TRUE, g |-> <<>>]
             ELSE IF gb.policy \notin {"random", "round_robin", "sequential", ""}
             THEN [err |-> TRUE, g |-> <<>>]
             ELSE [err |-> FALSE,
                   g |-> [Group(gb.Name, gb.Action,
                                [i \in 1..Len(hp.servers) |-> i],
                                IF gb.policy = "" THEN "sequential" ELSE gb.policy,
                                gb.maxfails, DefaultOpts)
                             EXCEPT !.AdguardPaths = gb.adguardPaths,
                                    !.InlineRules = gb.inlineRules]]

\* What a group block has said so far: whether a 'to' directive with
\* arguments was read, the last valid action read, and whether a token was
\* read that is no known directive, starts with no inline prefix and is no
\* domain name.
NothingSaid == [to |-> FALSE, action |-> "none", unknown |-> FALSE]

Saying(said, d) ==
    CASE d.key = "to" /\ Len(d.arg) > 0 -> [said EXCEPT !.to = TRUE]
      [] d.key = "action" /\ d.arg \in Actions -> [said EXCEPT !.action = d.arg]
      [] d.key = "token" /\ d.arg.key = ""
            /\ (~IsDomainName(d.arg.val) \/ Contains(d.arg.val, <<" ">>)) ->
           [said EXCEPT !.unknown = TRUE]
      [] OTHER -> said

\* The parse before its first block: r.groups empty, r.defaultGroup nil.
\* said belongs to the block being read or the one that failed, saids to
\* the blocks already built; unknownTop tells whether the plugin block held
\* a directive that is neither dlcfile nor group.
NewParse ==
    [pc |-> "block", gb |-> <<>>, said |-> <<>>, saids |-> <<>>, groups |-> <<>>,
     defaultGroup |-> 0, err |-> FALSE, unknownTop |-> FALSE]

\* parseRuledforward returns an error from parse state st.
ParseFailed(st) == [st EXCEPT !.pc = "done", !.err = TRUE, !.gb = <<>>]

ParseInit ==
    /\ MatcherIdle
    /\ from = <<".">>
    /\ groups = <<>>
    /\ defaultGroup = 0
    /\ matcher = <<>>
    /\ heap = <<>>
    /\ requestsTotal = [l \in GroupNames \X Actions |-> 0]
    /\ noMatchTotal = 0
    /\ forwardUpstreamFailTotal = [n \in GroupNames |-> 0]
    /\ h = IdleHandler
    /\ nreq = 0
    /\ upd = <<>>
    /\ rd = <<>>
    /\ stores = <<>>
    /\ ing = <<>>
    /\ pol = <<>>
    /\ conf = NewParse
    /\ rf = <<>>

ParseFrame ==
    UNCHANGED <<matcherVars, configVars, pol, rf, ing, updateVars, ptrVars, metricVars, h, nreq>>

\* case "group": the name is read and the groupBuild made (lines 84-97).
ParseGroupStart ==
    /\ conf.pc = "block"
    /\ Len(conf.groups) < MaxBlocks
    /\ \E name \in ConfNames :
         conf' = [conf EXCEPT !.pc = "directives", !.gb = NewGroupBuild(name),
                              !.said = NothingSaid]
    /\ ParseFrame

\* A directive of the plugin block that is neither dlcfile nor group
\* (lines 111-112).
ParseUnknownDirective ==
    /\ conf.pc = "block"
    /\ conf' = ParseFailed([conf EXCEPT !.unknownTop = TRUE])
    /\ ParseFrame

\* One directive of the group block (lines 101-105).
ParseGroupDirective ==
    /\ conf.pc = "directives"
    /\ \E d \in Directives :
         /\ d.key = "adguard_rules" => Len(conf.gb.adguardPaths) < MaxPaths
         /\ d.key = "token" => Len(conf.gb.inlineRules) < MaxInline
         /\ LET res == parseGroupDirective(conf.gb, d)
            IN  conf' = IF res.err
                        THEN ParseFailed([conf EXCEPT !.said = Saying(@, d)])
                        ELSE [conf EXCEPT !.gb = res.gb, !.said = Saying(@, d)]
    /\ ParseFrame

\* The closing brace of the group block: buildGroup and the append
\* (lines 106-111).
ParseGroupEnd ==
    /\ conf.pc = "directives"
    /\ LET res == buildGroup(conf.gb)
       IN  conf' = IF res.err
                   THEN ParseFailed(conf)
                   ELSE [conf EXCEPT !.pc = "block", !.gb = <<>>, !.said = <<>>,
                                     !.saids = Append(@, conf.said),
                                     !.groups = Append(@, res.g)]
    /\ ParseFrame

\* The end of the plugin block (lines 116-143): every group is updated, which
\* may fail for a group reading a rule file, then the groups named default
\* are counted and the last one cached.
ParseEnd ==
    /\ conf.pc = "block"
    /\ \E updErr \in {FALSE} \cup
                     {e \in {TRUE} : \E i \in 1..Len(conf.groups) :
                                        conf.groups[i].AdguardPaths # <<>>} :
         conf' = IF updErr
                 THEN ParseFailed(conf)
                 ELSE [conf EXCEPT !.pc = "done",
                                   !.defaultGroup = cachedDefault(conf.groups),
                                   !.err = defaultCount(conf.groups) > 1]
    /\ ParseFrame

ParseNext ==
    \/ ParseGroupStart
    \/ ParseUnknownDirective
    \/ ParseGroupDirective
    \/ ParseGroupEnd
    \/ ParseEnd

SpecParse == ParseInit /\ [][ParseNext]_vars

\* ---------------------------------------------- specification SpecRefresh

\* OnStartup, the runRefresh goroutines it starts, and OnShutdown, over
\* MaxRefreshGroups groups. Refreshes are counted up to MaxRefreshes.
MaxRefreshGroups == 2
MaxRefreshes == 1
RefreshGroups == 1..MaxRefreshGroups

\* A group as OnStartup and runRefresh read it: whether RefreshCron is set,
\* whether cronexpr.Parse accepts it, and whether it has AdguardURLs.
RefreshConfigs == [cron : BOOLEAN, valid : BOOLEAN, urls : BOOLEAN]

RefreshInit ==
    /\ MatcherIdle
    /\ from = <<".">>
    /\ groups = <<>>
    /\ defaultGroup = 0
    /\ matcher = <<>>
    /\ heap = <<>>
    /\ requestsTotal = [l \in GroupNames \X Actions |-> 0]
    /\ noMatchTotal = 0
    /\ forwardUpstreamFailTotal = [n \in GroupNames |-> 0]
    /\ h = IdleHandler
    /\ nreq = 0
    /\ upd = <<>>
    /\ rd = <<>>
    /\ stores = <<>>
    /\ ing = <<>>
    /\ pol = <<>>
    /\ conf = <<>>
    /\ \E cfg \in [RefreshGroups -> RefreshConfigs] :
         rf = [cfg |-> cfg,
               startup |-> 1,
               shutdown |-> 0,
               StopRefresh |-> [g \in RefreshGroups |-> "nil"],
               started |-> [g \in RefreshGroups |-> FALSE],
               loop |-> [g \in RefreshGroups |-> "none"],
               refreshes |-> [g \in RefreshGroups |-> 0],
               fails |-> [g \in RefreshGroups |-> 0],
               published |-> [g \in RefreshGroups |-> 0]]

RefreshFrame ==
    UNCHANGED <<matcherVars, configVars, pol, conf, ing, updateVars, ptrVars, metricVars, h, nreq>>

\* One turn of OnStartup's loop (lines 394-401): the goroutine is started
\* for a group with a refresh schedule and remote rule lists.
OnStartupStep ==
    /\ rf.startup <= MaxRefreshGroups
    /\ LET g == rf.startup
       IN  rf' = IF rf.cfg[g].cron /\ rf.cfg[g].urls
                 THEN [rf EXCEPT !.startup = g + 1, !.started[g] = TRUE,
                                 !.loop[g] = "parse"]
                 ELSE [rf EXCEPT !.startup = g + 1]
    /\ RefreshFrame

\* What OnShutdown's read of g.StopRefresh may see: the goroutine writes the
\* field without synchronisation, so the read may miss a write already made.
StopRefreshSeen(g) == {"nil", rf.StopRefresh[g]}

\* One turn of OnShutdown's loop (lines 407-414), after OnStartup returned:
\* the channel is closed if the field is seen non-nil.
OnShutdownStep ==
    /\ rf.startup > MaxRefreshGroups
    /\ rf.shutdown < MaxRefreshGroups
    /\ LET g == rf.shutdown + 1
       IN  \E seen \in StopRefreshSeen(g) :
              rf' = IF seen # "nil"
                    THEN [rf EXCEPT !.shutdown = g, !.StopRefresh[g] = "closed"]
                    ELSE [rf EXCEPT !.shutdown = g]
    /\ RefreshFrame

\* runRefresh up to its loop (lines 419-423): the schedule is parsed, and the
\* stop channel is made by the goroutine itself.
RefreshParse(g) ==
    /\ rf.loop[g] = "parse"
    /\ rf' = IF rf.cfg[g].valid
             THEN [rf EXCEPT !.loop[g] = "select", !.StopRefresh[g] = "open"]
             ELSE [rf EXCEPT !.loop[g] = "exited"]
    /\ RefreshFrame

\* The select takes case <-timer.C (line 431).
TimerFires(g) ==
    /\ rf.loop[g] = "select"
    /\ rf' = [rf EXCEPT !.loop[g] = "update"]
    /\ RefreshFrame

\* The loop ends when Update returns an error.
AfterUpdate_StopOnError(err) == IF err THEN "exited" ELSE "select"

\* Where runRefresh goes when g.Update has returned (lines 432-435): the
\* error is logged and the loop goes round.
AfterUpdate(err) == "select"

\* g.Update returns, with or without an error. updateMatcher publishes a
\* matcher only when no source failed (part_000, lines 83-129); published
\* counts the matchers published, up to MaxRefreshes, and fails the
\* Updates that failed in a row, up to two.
RefreshUpdate(g) ==
    /\ rf.loop[g] = "update"
    /\ \E err \in BOOLEAN :
         rf' = [rf EXCEPT !.loop[g] = AfterUpdate(err),
                          !.refreshes[g] = IF @ < MaxRefreshes THEN @ + 1 ELSE @,
                          !.fails[g] = IF err THEN UpToTwo(@) ELSE 0,
                          !.published[g] = IF ~err /\ @ < MaxRefreshes THEN @ + 1 ELSE @]
    /\ RefreshFrame

\* The select takes case <-g.StopRefresh, which a closed channel allows
\* (lines 428-430).
RefreshStop(g) ==
    /\ rf.loop[g] = "select"
    /\ rf.StopRefresh[g] = "closed"
    /\ rf' = [rf EXCEPT !.loop[g] = "exited"]
    /\ RefreshFrame

RefreshNext ==
    \/ OnStartupStep
    \/ OnShutdownStep
    \/ \E g \in RefreshGroups : RefreshParse(g)
    \/ \E g \in RefreshGroups : TimerFires(g)
    \/ \E g \in RefreshGroups : RefreshUpdate(g)
    \/ \E g \in RefreshGroups : RefreshStop(g)

SpecRefresh == RefreshInit /\ [][RefreshNext]_vars

\* Every goroutine keeps running and every Update returns; the timer of a
\* waiting loop fires in the end; and a select that finds the stop channel
\* closed again and again takes that case in the end, the choice between
\* ready cases being random.
SpecRefreshFair ==
    /\ SpecRefresh
    /\ \A g \in RefreshGroups :
         /\ WF_vars(RefreshParse(g))
         /\ WF_vars(RefreshUpdate(g))
         /\ WF_vars(TimerFires(g))
         /\ SF_vars(RefreshStop(g))

\* ----------------------------------------------- specification SpecUpdate

MaxUpdates == 2
Readers == {1, 2}

\* The bits of updateItems; a mask is the set of its bits, and
\* updateItems&bit != 0 is membership.
UpdateMatcherGeosite == 1
UpdateMatcherInlinee == 2
UpdateMatcherAdguardLocal == 4
UpdateMatcherAdguardRemote == 8
UpdateMatcherLocal ==
    {UpdateMatcherGeosite, UpdateMatcherInlinee, UpdateMatcherAdguardLocal}
UpdateMatcherAll == UpdateMatcherLocal \cup {UpdateMatcherAdguardRemote}

\* The masks Update is called with.
UpdateMasks == {UpdateMatcherAll, UpdateMatcherLocal, {UpdateMatcherAdguardRemote}}

\* strings.ToUpper on the list names in use.
ToUpperName(n) == CASE n = "cn" -> "CN" [] OTHER -> n

\* The catalogs Update may be handed: none (nil), or a map from upper-case
\* list names to rules.
DlcMaps ==
    { [isNil |-> TRUE, lists |-> <<>>],
      [isNil |-> FALSE, lists |-> [n \in {"CN"} |-> <<Rule(RuleFull, <<"b", ".", "a", ".">>)>>]] }

\* dlcMap[name]: the rules of the list, none for a name the map lacks.
DlcLookup(dlc, name) ==
    IF name \in DOMAIN dlc.lists THEN dlc.lists[name] ELSE <<>>

\* What LoadAdguardFromFile and LoadAdguardFromURL may return: an error, or
\* the rules of the list as it reads at that moment.
AdguardOutcomes ==
    { [err |-> TRUE, rules |-> <<>>],
      [err |-> FALSE, rules |-> <<Rule(RuleDomain, <<"a", ".">>)>>] }

\* The rule sources a group may be configured with.
InlineRuleLists ==
    { <<>>,
      <<Rule(RuleKeyword, <<"a">>)>>,
      <<Rule(RuleRegex, <<"^", "b">>)>>,
      <<Rule(RuleDomain, <<"a", ".">>), Rule(RuleKeyword, <<"b">>)>> }

SourceConfigs ==
    [GeositeNames : {<<>>, <<"cn">>}, InlineRules : InlineRuleLists,
     AdguardPaths : {<<>>, <<"p">>}, AdguardURLs : {<<>>, <<"u">>}]

\* The qnames the readers ask about.
ReaderNames == { <<"a", ".">>, <<"B", ".", "a", ".">> }

IdleUpdate ==
    [pc |-> "idle", mask |-> {}, dlc |-> [isNil |-> TRUE, lists |-> <<>>],
     bmAddr |-> 0, k |-> 0, err |-> FALSE, calls |-> 0,
     m0 |-> 0, s0 |-> 0, srcFailed |-> FALSE]

\* http.StatusOK
StatusOK == 200

\* What client.Get may give: an error, or a response with a status code and
\* a body, the body read as the rules ParseAdguardRules makes of it.
HttpResponses ==
    { [getErr |-> TRUE, status |-> 0, rules |-> <<>>],
      [getErr |-> FALSE, status |-> 404, rules |-> <<Rule(RuleFull, <<"a", ".">>)>>],
      [getErr |-> FALSE, status |-> StatusOK, rules |-> <<Rule(RuleDomain, <<"a", ".">>)>>] }

\* A fetch that takes the body of any response, whatever its status.
LoadAdguardFromURL_AnyStatus(resp) ==
    IF resp.getErr
    THEN [err |-> TRUE, rules |-> <<>>]
    ELSE [err |-> FALSE, rules |-> resp.rules]

\* LoadAdguardFromURL on response resp: an error of Get or a status other
\* than 200 is an error, otherwise the rules of the body.
LoadAdguardFromURL(resp) ==
    IF resp.getErr \/ resp.status # StatusOK
    THEN [err |-> TRUE, rules |-> <<>>]
    ELSE [err |-> FALSE, rules |-> resp.rules]

\* The state Update leaves behind when it returns: its return value and
\* what it recorded of the call.
UpdReturned(st, err) ==
    [IdleUpdate EXCEPT !.err = err, !.calls = st.calls, !.m0 = st.m0, !.s0 = st.s0,
                       !.srcFailed = st.srcFailed]

IdleReader == [pc |-> "idle", loaded |-> 0, at |-> 0, q |-> <<>>, res |-> FALSE, late |-> FALSE]

UpdateInit ==
    /\ MatcherIdle
    /\ from = <<".">>
    /\ \E src \in SourceConfigs :
         groups = << [Group("g1", "empty", <<>>, "nil", DefaultMaxfails, DefaultOpts)
                        EXCEPT !.GeositeNames = src.GeositeNames,
                               !.InlineRules = src.InlineRules,
                               !.AdguardPaths = src.AdguardPaths,
                               !.AdguardURLs = src.AdguardURLs] >>
    /\ defaultGroup = 0
    /\ matcher = <<0>>
    /\ heap = <<>>
    /\ requestsTotal = [l \in GroupNames \X Actions |-> 0]
    /\ noMatchTotal = 0
    /\ forwardUpstreamFailTotal = [n \in GroupNames |-> 0]
    /\ h = IdleHandler
    /\ nreq = 0
    /\ upd = IdleUpdate
    /\ rd = [r \in Readers |-> IdleReader]
    /\ stores = <<>>
    /\ ing = <<>>
    /\ pol = <<>>
    /\ conf = <<>>
    /\ rf = <<>>

\* The rules are added to the matcher the group holds, when it holds one.
HeapAddRules_InPlace(addr, rules) ==
    heap' = [heap EXCEPT ![IF Matcher(1) # 0 THEN Matcher(1) ELSE addr].bm = AddRules(@, rules)]

\* bm.AddRule(rule) for every rule of rules, on the object at addr.
HeapAddRules(addr, rules) ==
    heap' = [heap EXCEPT ![addr].bm = AddRules(@, rules)]

\* Update is called (line 134) and updateMatcher allocates bm (line 84).
UpdStart ==
    /\ upd.pc = "idle"
    /\ upd.calls < MaxUpdates
    /\ \E mask \in UpdateMasks, dlc \in DlcMaps :
         upd' = [IdleUpdate EXCEPT !.pc = "geosite", !.mask = mask, !.dlc = dlc,
                                   !.bmAddr = Len(heap) + 1, !.calls = upd.calls + 1,
                                   !.m0 = Matcher(1), !.s0 = Len(stores)]
    /\ heap' = Append(heap, [bm |-> NewBloomedMatcher, built |-> FALSE])
    /\ UNCHANGED <<matcherVars, configVars, auxVars, matcher, metricVars, handlerVars, rd, stores>>

\* The geosite block (lines 86-95); groups of this specification hold at
\* most one list name.
UpdGeosite ==
    /\ upd.pc = "geosite"
    /\ LET names == groups[1].GeositeNames
       IN  IF UpdateMatcherGeosite \in upd.mask /\ names # <<>> /\ ~upd.dlc.isNil
           THEN HeapAddRules(upd.bmAddr, DlcLookup(upd.dlc, ToUpperName(names[1])))
           ELSE heap' = heap
    /\ upd' = [upd EXCEPT !.pc = "inline", !.dlc = IdleUpdate.dlc]
    /\ UNCHANGED <<matcherVars, configVars, auxVars, matcher, metricVars, handlerVars, rd, stores>>

\* The inline block (lines 97-101).
UpdInline ==
    /\ upd.pc = "inline"
    /\ IF UpdateMatcherInlinee \in upd.mask
       THEN HeapAddRules(upd.bmAddr, groups[1].InlineRules)
       ELSE heap' = heap
    /\ upd' = [upd EXCEPT !.pc = "local", !.k = 0]
    /\ UNCHANGED <<matcherVars, configVars, auxVars, matcher, metricVars, handlerVars, rd, stores>>

\* One pass of a loader loop: the next path or URL is loaded with one of
\* the results outs (bad records that the source itself failed), an error
\* ends Update without a SetMatcher call, and past the last one the code
\* goes on at pc next.
UpdLoad(bit, sources, next, outs) ==
    IF bit \in upd.mask /\ upd.k < Len(sources)
    THEN \E out \in outs :
           LET st == [upd EXCEPT !.srcFailed = @ \/ out.bad]
           IN  IF out.err
               THEN /\ upd' = UpdReturned(st, TRUE)
                    /\ heap' = heap
               ELSE /\ upd' = [st EXCEPT !.k = @ + 1]
                    /\ HeapAddRules(upd.bmAddr, out.rules)
    ELSE /\ upd' = [upd EXCEPT !.pc = next, !.k = 0]
         /\ heap' = heap

\* The local AdGuard block (lines 103-114).
UpdAdguardLocal ==
    /\ upd.pc = "local"
    /\ UpdLoad(UpdateMatcherAdguardLocal, groups[1].AdguardPaths, "remote",
               {[err |-> o.err, rules |-> o.rules, bad |-> o.err] : o \in AdguardOutcomes})
    /\ UNCHANGED <<matcherVars, configVars, auxVars, matcher, metricVars, handlerVars, rd, stores>>

\* The remote AdGuard block (lines 116-127).
UpdAdguardRemote ==
    /\ upd.pc = "remote"
    /\ UpdLoad(UpdateMatcherAdguardRemote, groups[1].AdguardURLs, "build",
               {[err |-> LoadAdguardFromURL(resp).err, rules |-> LoadAdguardFromURL(resp).rules,
                 bad |-> resp.getErr \/ resp.status # 200] : resp \in HttpResponses})
    /\ UNCHANGED <<matcherVars, configVars, auxVars, matcher, metricVars, handlerVars, rd, stores>>

\* bm.Build() (line 129).
UpdBuild ==
    /\ upd.pc = "build"
    /\ \E sorted \in SortedLongestFirst(heap[upd.bmAddr].bm.m.domain) :
         heap' = [heap EXCEPT ![upd.bmAddr] =
                     [bm |-> bloomedBuild(@.bm, sorted), built |-> TRUE]]
    /\ upd' = [upd EXCEPT !.pc = "set"]
    /\ UNCHANGED <<matcherVars, configVars, auxVars, matcher, metricVars, handlerVars, rd, stores>>

\* g.SetMatcher(bm) and the return of Update (lines 130-131, 139).
UpdSetMatcher ==
    /\ upd.pc = "set"
    /\ SetMatcher(1, upd.bmAddr)
    /\ stores' = Append(stores, [addr |-> upd.bmAddr, bm |-> heap[upd.bmAddr].bm,
                                 mask |-> upd.mask])
    /\ upd' = UpdReturned(upd, FALSE)
    /\ UNCHANGED <<matcherVars, configVars, auxVars, heap, metricVars, handlerVars, rd>>

\* A reader's m := g.Matcher() (line 159, first half).
RdLoad(r) ==
    /\ rd[r].pc = "idle"
    /\ \E q \in ReaderNames :
         rd' = [rd EXCEPT ![r] = [IdleReader EXCEPT !.pc = "loaded", !.loaded = Matcher(1),
                                                    !.at = Len(stores), !.q = q]]
    /\ UNCHANGED <<matcherVars, configVars, auxVars, ptrVars, metricVars, handlerVars, upd, stores>>

\* The reader's m == nil || !m.Match(qname) (line 159, second half).
RdMatch(r) ==
    /\ rd[r].pc = "loaded"
    /\ rd' = [rd EXCEPT ![r].pc = "matched",
                        ![r].res = ~GroupMisses(rd[r].loaded, rd[r].q),
                        ![r].late = (Len(stores) > rd[r].at)]
    /\ UNCHANGED <<matcherVars, configVars, auxVars, ptrVars, metricVars, handlerVars, upd, stores>>

\* The reader is done with the matcher it held.
RdReturn(r) ==
    /\ rd[r].pc = "matched"
    /\ rd' = [rd EXCEPT ![r] = IdleReader]
    /\ UNCHANGED <<matcherVars, configVars, auxVars, ptrVars, metricVars, handlerVars, upd, stores>>

UpdateNext ==
    \/ UpdStart
    \/ UpdGeosite
    \/ UpdInline
    \/ UpdAdguardLocal
    \/ UpdAdguardRemote
    \/ UpdBuild
    \/ UpdSetMatcher
    \/ \E r \in Readers : RdLoad(r)
    \/ \E r \in Readers : RdMatch(r)
    \/ \E r \in Readers : RdReturn(r)

SpecUpdate == UpdateInit /\ [][UpdateNext]_vars

\* ----------------------------------------------- specification SpecIngest

\* The three rule sources read on their own, and the matcher made of what
\* they yield: an AdGuard text of at most MaxLines lines, at most MaxEntries
\* entries of a geosite catalog list, or at most MaxTokens inline tokens of
\* a group block.
MaxLines == 2
MaxEntries == 2
MaxTokens == 2

\* The lines of an AdGuard text: blank lines, comments, exceptions, '||'
\* lines with and without '^' and host, '/re/' lines, hosts-file lines with
\* a first token that holds a dot or a colon and with one that does not,
\* single tokens, the root name on its own.
AdguardLines ==
    { <<>>, <<" ">>, <<"#", "a">>, <<"!", "a">>, <<"@", "@">>,
      <<"@", "@", "|", "|", "a", "^">>, <<"|", "|", "a", "^">>,
      <<"|", "|", "B", ".", "a", "^">>, <<"|", "|", "a">>, <<"|", "|", "^">>,
      <<"|", "|">>, <<"|", "|", " ", "^">>, <<"|", "|", "/", "a", "/">>,
      <<"/", "a", "/">>, <<"/", "B", "/">>, <<"/", "/">>, <<"/">>,
      <<"a", ".", " ", "B">>, <<"a", " ", "B">>,
      <<"a", ".", " ", "B", " ", "a">>, <<"/", "a", "/", " ", "B">>, <<"B">>,
      <<"B", ".">>, <<" ", "a", " ">>, <<".">>, <<"|", "a", "^">>,
      <<"a", ":", "a", " ", "B", ".">> }

\* Catalog entries: every type of the catalog and one it does not define,
\* values in both cases, with white space, and empty.
CatalogTypes == {"RootDomain", "Full", "Regex", "Plain", "Undefined"}
CatalogValues == { <<>>, <<"a">>, <<"^", "B">>, <<" ", "a", ".", "$">> }

\* Inline tokens: every prefix with a value, without one but with a next
\* argument, and with neither; bare tokens that are domain names and bare
\* tokens that are not.
InlineTokens ==
    {InlineToken(k, v, n) : k \in {"domain:", "full:", "keyword:", "regex:"},
                            v \in { <<>>, <<"B">> }, n \in { <<>>, <<"a">> }}
        \cup {InlineToken("", v, <<>>) :
                v \in { <<"B", ".", "a">>, <<".">>, <<".", "a">>, <<"a", ".", ".">> }}

SeqsUpTo(S, n) == UNION {[1..k -> S] : k \in 0..n}

IngestInit ==
    /\ MatcherIdle
    /\ from = <<".">>
    /\ groups = <<>>
    /\ defaultGroup = 0
    /\ matcher = <<>>
    /\ heap = <<>>
    /\ requestsTotal = [l \in GroupNames \X Actions |-> 0]
    /\ noMatchTotal = 0
    /\ forwardUpstreamFailTotal = [n \in GroupNames |-> 0]
    /\ h = IdleHandler
    /\ nreq = 0
    /\ upd = <<>>
    /\ rd = <<>>
    /\ stores = <<>>
    /\ pol = <<>>
    /\ conf = <<>>
    /\ rf = <<>>
    /\ \E path \in {"adguard", "geosite", "inline"} :
         \E input \in (CASE path = "adguard" -> SeqsUpTo(AdguardLines, MaxLines)
                         [] path = "geosite" -> SeqsUpTo(CatalogTypes \X CatalogValues, MaxEntries)
                         [] path = "inline" -> SeqsUpTo(InlineTokens, MaxTokens)) :
            ing = [path |-> path, input |-> input, pos |-> 1, rules |-> <<>>,
                   err |-> FALSE, pc |-> "reading", m |-> NewMatcher]

IngestFrame ==
    UNCHANGED <<matcherVars, configVars, pol, conf, rf, updateVars, ptrVars, metricVars, h, nreq>>

\* One turn of the scanner loop of ParseAdguardRules (adguard.go, lines 23-64).
AdguardScanLine ==
    /\ ing.path = "adguard" /\ ing.pc = "reading"
    /\ ing.pos <= Len(ing.input)
    /\ ing' = [ing EXCEPT !.pos = @ + 1,
                          !.rules = @ \o adguardLine(ing.input[ing.pos])]
    /\ IngestFrame

\* One entry of a catalog list handed to domainToRule (dlc.go, lines 73-95).
CatalogEntry ==
    /\ ing.path = "geosite" /\ ing.pc = "reading"
    /\ ing.pos <= Len(ing.input)
    /\ ing' = [ing EXCEPT !.pos = @ + 1,
                          !.rules = @ \o domainToRule(ing.input[ing.pos][1],
                                                      ing.input[ing.pos][2])]
    /\ IngestFrame

\* One token of a group block handed to parseInlineRule (setup.go, lines
\* 264-271): an error ends the parse, a rule is appended to gb.inlineRules.
InlineRuleToken ==
    /\ ing.path = "inline" /\ ing.pc = "reading"
    /\ ing.pos <= Len(ing.input)
    /\ LET res == parseInlineRule(ing.input[ing.pos])
       IN  ing' = IF res.err
                  THEN [ing EXCEPT !.err = TRUE, !.pc = "done"]
                  ELSE [ing EXCEPT !.pos = @ + 1, !.rules = @ \o res.rule]
    /\ IngestFrame

RECURSIVE AddAllRules(_, _)
AddAllRules(m, rules) ==
    IF rules = <<>> THEN m ELSE AddAllRules(AddRule(m, Head(rules)), Tail(rules))

\* The source is read to its end and its rules are added to a new matcher,
\* as updateMatcher does with what each source returns.
IngestAddRules ==
    /\ ing.pc = "reading"
    /\ ing.pos > Len(ing.input)
    /\ ing' = [ing EXCEPT !.pc = "done", !.m = AddAllRules(NewMatcher, ing.rules)]
    /\ IngestFrame

IngestNext ==
    \/ AdguardScanLine
    \/ CatalogEntry
    \/ InlineRuleToken
    \/ IngestAddRules

SpecIngest == IngestInit /\ [][IngestNext]_vars


\* ================================================================ claims

\* The rule semantics of the data model: what it means for rule r to match
\* qname, with the qname and Domain/Full values lower-cased and
\* dot-terminated, Keyword values lower-cased, Regex values as authored (a
\* pattern that does not compile matches nothing).
RuleMatches(r, qname) ==
    LET q == ToLower(Fqdn(qname))
        v == ToLower(Fqdn(r.Value))
    IN  CASE r.Type = RuleFull -> q = v
          [] r.Type = RuleDomain -> q = v \/ HasSuffix(q, <<".">> \o v)
          [] r.Type = RuleKeyword -> Contains(q, ToLower(r.Value))
          [] r.Type = RuleRegex -> RegexCompiles(r.Value) /\ RegexMatchString(r.Value, q)

\* C6: a plain matcher built by AddRule calls and Build matches a qname if
\* and only if at least one added rule matches it under the rule semantics,
\* and a repeated Match call returns the same.
C6_MatchIffSomeRule ==
    mstage = "matched" =>
        /\ mres.plain = (\E i \in 1..Len(added) : RuleMatches(added[i], mq))
        /\ mres.again = mres.plain

\* C7: a matcher holding only Domain rules matches q exactly when the label
\* sequence (TLD first) of some rule value is a prefix of q's label sequence;
\* in particular it matches when q equals the rule value.
C7_DomainIffLabelPrefix ==
    (mstage = "matched" /\ \A i \in 1..Len(added) : added[i].Type = RuleDomain) =>
        /\ mres.plain =
             (\E i \in 1..Len(added) :
                 IsPrefixOf(domainLabels(ToLower(Fqdn(added[i].Value))),
                          domainLabels(ToLower(Fqdn(mq)))))
        /\ \A i \in 1..Len(added) :
             ToLower(Fqdn(mq)) = ToLower(Fqdn(added[i].Value)) => mres.plain

\* C8: Bloom soundness: whenever the inner matcher's Full set or Domain trie
\* matches q, MaybeMatch(q) is true, so the Bloomed Match agrees with the
\* inner matcher on q.
C8_BloomNoFalseNegative ==
    (mstage = "matched"
        /\ (ToLower(Fqdn(mq)) \in bm.m.full \/ matchDomainTrie(bm.m, ToLower(Fqdn(mq))))) =>
        /\ mres.maybe
        /\ mres.bloomed = mres.plain

\* ------------------------------------------------------ dispatch claims

\* The zone test of the data model, on strings: from is ".", or qname equals
\* from, or qname ends in "." followed by from.
InZone(zone, qname) ==
    zone = <<".">> \/ qname = zone \/ HasSuffix(qname, <<".">> \o zone)

\* The groups the request in flight has consulted whose loaded matcher was
\* non-nil and matched its qname.
Hits ==
    {j \in DOMAIN h.loadedAt :
        h.loadedAt[j] # 0 /\ bloomedMatch(heap[h.loadedAt[j]].bm, h.qname)}

NonDefault == {j \in 1..Len(groups) : groups[j].Name # "default"}

\* requests_total has grown by one under (group g, its action) and under no
\* other label since the request in flight began.
CountedOnceFor(g) ==
    requestsTotal =
        [h.requests0 EXCEPT ![<<groups[g].Name, groups[g].Action>>] = @ + 1]

HandledByMatch == h.handledBy # 0 /\ groups[h.handledBy].Name # "default"
HandledByDefault == h.handledBy # 0 /\ groups[h.handledBy].Name = "default"

\* C1: the group that handles an in-zone request is the first non-default
\* group, in configured order, whose loaded matcher is non-nil and matches the
\* qname: every earlier non-default group was consulted and missed, no later
\* group is consulted or applied, a nil matcher never matches, and exactly
\* that group's action is counted.
C1_FirstMatchWins ==
    h.pc \in {"fwd", "connect", "done"} =>
        /\ DOMAIN h.loadedAt \subseteq NonDefault
        /\ HandledByMatch <=> Hits # {}
        /\ HandledByMatch =>
              /\ Hits = {h.handledBy}
              /\ DOMAIN h.loadedAt = {j \in NonDefault : j <= h.handledBy}
              /\ CountedOnceFor(h.handledBy)
              /\ InZone(from, h.qname)

C1_Witness ==
    /\ h.pc = "done"
    /\ Len(groups) = 2
    /\ h.handledBy = 1
    /\ groups[1].Action # groups[2].Action
    /\ matcher[2] # 0
    /\ bloomedMatch(heap[matcher[2]].bm, h.qname)

\* C2: the default group's action is applied exactly when the request is in
\* zone and every non-default group was consulted and missed, wherever the
\* default group stands in the list and whatever its own matcher holds; the
\* next handler is then not invoked.
C2_DefaultIffNoMatch ==
    h.pc \in {"fwd", "connect", "done"} =>
        /\ HandledByDefault =>
              /\ InZone(from, h.qname)
              /\ Hits = {}
              /\ DOMAIN h.loadedAt = NonDefault
              /\ h.nextCalls = 0
              /\ CountedOnceFor(h.handledBy)
        /\ (InZone(from, h.qname) /\ Hits = {} /\ NonDefault # 1..Len(groups)) =>
              HandledByDefault

C2_Witness ==
    /\ h.pc = "done"
    /\ Len(groups) = 2
    /\ groups[1].Name = "default"
    /\ h.handledBy = 1
    /\ matcher[1] = 0
    /\ matcher[2] # 0
    /\ h.loadedAt = (2 :> matcher[2])

\* C3: an in-zone request that matches no non-default group, with no default
\* group configured, adds exactly 1 to no_match_total, reaches the next
\* handler exactly once and gets no reply from this plugin; a request that a
\* group handles leaves no_match_total alone.
C3_NoMatchPassThrough ==
    h.pc = "done" =>
        /\ (InZone(from, h.qname) /\ Hits = {} /\ NonDefault = 1..Len(groups)) =>
              /\ noMatchTotal = h.noMatch0 + 1
              /\ h.nextCalls = 1
              /\ h.replies = <<>>
              /\ h.handledBy = 0
        /\ h.handledBy # 0 =>
              /\ noMatchTotal = h.noMatch0
              /\ h.nextCalls = 0

C3_Witness ==
    /\ h.pc = "done"
    /\ InZone(from, h.qname)
    /\ DOMAIN h.loadedAt = {1, 2}
    /\ h.loadedAt[1] # 0
    /\ h.handledBy = 0
    /\ h.noMatch0 = 1
    /\ noMatchTotal = 2

\* C4: a request whose qname lies outside the from zone goes straight to the
\* next handler: no matcher is loaded, no group handles it, this plugin
\* writes no reply and contacts no upstream, and the three counters keep
\* the values they had when the request arrived.
C4_ZoneFilterFrame ==
    (h.pc # "idle" /\ ~InZone(from, h.qname)) =>
        /\ h.pc = "done"
        /\ h.nextCalls = 1
        /\ h.loadedAt = <<>>
        /\ h.handledBy = 0
        /\ h.replies = <<>>
        /\ h.connects = 0
        /\ requestsTotal = h.requests0
        /\ noMatchTotal = h.noMatch0
        /\ forwardUpstreamFailTotal = h.fail0

C4_Witness ==
    /\ h.pc = "done"
    /\ ~InZone(from, h.qname)
    /\ defaultGroup # 0
    /\ \E j \in 1..Len(groups) : matcher[j] # 0
    /\ h.nextCalls = 1

\* C5: when a group with action empty handles a request, exactly one reply is
\* written: a response with the request's id and question, rcode success, no
\* answer, and one SOA in the authority section owned by the qname (class IN,
\* TTL 60, serial, refresh, retry and expire 0, minimum TTL 60, NS ".",
\* mailbox "."); the next handler is not invoked and no upstream is contacted.
C5_EmptyReply ==
    (h.pc = "done" /\ h.handledBy # 0 /\ groups[h.handledBy].Action = "empty") =>
        /\ h.replies =
             << [Id |-> h.req.Id, Response |-> TRUE, Rcode |-> 0,
                 Question |-> h.req.Question, Answer |-> <<>>,
                 Ns |-> << [Name |-> h.qname, Ttl |-> 60, Class |-> "IN",
                            Rrtype |-> "SOA", Ns |-> <<".">>, Mbox |-> <<".">>,
                            Serial |-> 0, Refresh |-> 0, Retry |-> 0, Expire |-> 0,
                            Minttl |-> 60] >>,
                 Truncated |-> FALSE] >>
        /\ h.nextCalls = 0
        /\ h.connects = 0

C5_Witness ==
    /\ h.pc = "done"
    /\ HandledByMatch
    /\ groups[h.handledBy].Action = "empty"
    /\ h.req.Question[1].Name = <<"B", ".", "a", ".">>
    /\ Len(h.replies) = 1
    /\ h.replies[1].Ns[1].Name = <<"b", ".", "a", ".">>

\* -------------------------------------------------------- update claims

\* C9: once Update, called with the inline source selected, has published a
\* matcher for a group that holds an inline Keyword or Regex rule, a Match on
\* that matcher is true for every qname the Keyword or Regex rule matches,
\* whether or not a Full or Domain key of the group covers the qname.
C9_KeywordRegexNotBloomGated ==
    \A r \in Readers :
        (rd[r].pc = "matched" /\ rd[r].loaded # 0
            /\ UpdateMatcherInlinee \in stores[rd[r].at].mask) =>
            \A i \in 1..Len(groups[1].InlineRules) :
                LET rule == groups[1].InlineRules[i]
                IN  (rule.Type \in {RuleKeyword, RuleRegex} /\ RuleMatches(rule, rd[r].q))
                        => rd[r].res

\* C10: every load of the pointer returns nil when no SetMatcher call has
\* completed before it, and otherwise the address passed to the latest
\* completed SetMatcher call; the object behind it is built and is still the
\* matcher that was passed, and a Match on it answers from that matcher even
\* when the pointer has been swapped since the load.
C10_LoadSeesLatestStore ==
    \A r \in Readers :
        rd[r].pc \in {"loaded", "matched"} =>
            /\ rd[r].at = 0 => rd[r].loaded = 0
            /\ rd[r].at > 0 =>
                  /\ rd[r].loaded = stores[rd[r].at].addr
                  /\ heap[rd[r].loaded].built
                  /\ heap[rd[r].loaded].bm = stores[rd[r].at].bm
                  /\ rd[r].pc = "matched" =>
                        rd[r].res = bloomedMatch(stores[rd[r].at].bm, rd[r].q)
            /\ (rd[r].pc = "matched" /\ rd[r].at = 0) => ~rd[r].res

C10_Witness ==
    /\ Len(stores) = 2
    /\ stores[1].bm # stores[2].bm
    /\ \E r1, r2 \in Readers :
         /\ rd[r1].pc = "matched" /\ rd[r1].at = 1 /\ rd[r1].late
         /\ rd[r2].pc = "matched" /\ rd[r2].at = 2
         /\ rd[r1].q = rd[r2].q
         /\ rd[r1].res # rd[r2].res

\* C11: when Update has returned, either no selected source failed, Update
\* returned nil and exactly one SetMatcher call was made, which published the
\* matcher the pointer now holds; or a selected source failed (a file read, a
\* fetch, a status other than 200), Update returned an error, no SetMatcher
\* call was made and the pointer holds the matcher it held before the call.
C11_SetMatcherOnceOrNever ==
    (upd.pc = "idle" /\ upd.calls > 0) =>
        /\ ~upd.srcFailed =>
              /\ ~upd.err
              /\ Len(stores) = upd.s0 + 1
              /\ matcher[1] = stores[Len(stores)].addr
              /\ matcher[1] # upd.m0
        /\ upd.srcFailed =>
              /\ upd.err
              /\ Len(stores) = upd.s0
              /\ matcher[1] = upd.m0

C11_Witness ==
    /\ upd.pc = "idle"
    /\ upd.calls = 2
    /\ upd.srcFailed
    /\ upd.err
    /\ Len(stores) = 1
    /\ matcher[1] = stores[1].addr
    /\ Len(heap) = 2
    /\ heap[2].bm # NewBloomedMatcher

\* ------------------------------------------------- claims on forwardGroup

\* The group forwardGroup was called on, and whether the call has returned.
FwdGroup == groups[1]
FwdReturned == h.pc = "done"

\* C12: a forwardGroup call on a group with zero proxies has returned
\* (ServerFailure, errNoHealthy), and it has not called the policy, has made
\* no Connect attempt and has written nothing to the response writer.
C12_NoProxiesNoHealthy ==
    (h.pc # "idle" /\ Len(FwdGroup.Proxies) = 0) =>
        /\ FwdReturned
        /\ h.ret = [code |-> RcodeServerFailure, err |-> "errNoHealthy"]
        /\ h.policyCalls = 0
        /\ h.connects = 0
        /\ h.replies = <<>>

C12_Witness ==
    /\ FwdReturned
    /\ Len(FwdGroup.Proxies) = 0
    /\ FwdGroup.Policy = "sequential"
    /\ h.ret.err = "errNoHealthy"

\* C13: in every execution of forwardGroup at most one reply is written to
\* the response writer, and no Connect attempt is made after a reply was
\* written.
C13_AtMostOneReply ==
    /\ Len(h.replies) <= 1
    /\ ~h.lateConnect
    /\ h.replies # <<>> => FwdReturned

C13_Witness ==
    /\ FwdReturned
    /\ Len(h.replies) = 1
    /\ h.connects = MaxFwdSteps
    /\ Len(FwdGroup.Proxies) = 2

\* The reply's question section matches the request: same id, one question,
\* the same name up to case, the same type.
QuestionMatches(req, reply) ==
    /\ reply.Id = req.Id
    /\ Len(reply.Question) = 1
    /\ ToLower(reply.Question[1].Name) = ToLower(req.Question[1].Name)
    /\ reply.Question[1].Qtype = req.Question[1].Qtype

\* The FormatError reply built from the request.
FormErrOf(req) ==
    [Id |-> req.Id, Response |-> TRUE, Rcode |-> RcodeFormatError,
     Question |-> req.Question, Answer |-> <<>>, Ns |-> <<>>, Truncated |-> FALSE]

\* C14: when a Connect succeeded with a reply whose question section does not
\* match the request, the FormatError reply built from the request is the
\* only message written, no further Connect attempt was made and forwardGroup
\* returned (0, nil); and the upstream reply is the message written only when
\* its question section matches.
C14_FormErrOnMismatch ==
    (FwdReturned /\ h.got # NoReq) =>
        /\ ~QuestionMatches(h.req, h.got) =>
              /\ h.replies = <<FormErrOf(h.req)>>
              /\ h.ret = [code |-> 0, err |-> "nil"]
              /\ ~h.lateConnect
        /\ h.replies = <<h.got>> => QuestionMatches(h.req, h.got)
        /\ h.replies \in {<<h.got>>, <<FormErrOf(h.req)>>}

C14_Witness ==
    /\ FwdReturned
    /\ h.got # NoReq
    /\ h.got.Question[1].Qtype = "AAAA"
    /\ h.replies = <<FormErrOf(h.req)>>
    /\ h.connects = MaxFwdSteps

\* C16: once the deadline has passed or the context is cancelled, a running
\* forwardGroup call eventually returns, whatever the Connect calls return.
C16_ReturnsAfterDeadline ==
    (h.pc \in {"fwd", "connect"} /\ (h.fwd.expired \/ h.fwd.cancelled)) ~> FwdReturned

\* The upstream-failure counter of the group has grown by n during the call.
FailGrownBy(n) ==
    forwardUpstreamFailTotal =
        [h.fail0 EXCEPT ![FwdGroup.Name] = @ + n]

\* C15 as stated: every forwardGroup call that returned ServerFailure has
\* incremented the group's upstream-failure counter by exactly one, and a
\* call that wrote a reply has not incremented it.
C15_FailCountedAlways ==
    FwdReturned =>
        /\ h.ret.code = RcodeServerFailure => FailGrownBy(1)
        /\ h.replies # <<>> => FailGrownBy(0)

\* C15: a forwardGroup call on a group with at least one proxy that returned
\* ServerFailure has incremented the group's upstream-failure counter by
\* exactly one; a call on a group with zero proxies returned ServerFailure
\* and left the counter as it was; and a call that wrote a reply has not
\* incremented it.
C15_FailCountedWithProxies ==
    FwdReturned =>
        /\ (h.ret.code = RcodeServerFailure /\ Len(FwdGroup.Proxies) > 0) => FailGrownBy(1)
        /\ (h.ret.code = RcodeServerFailure /\ Len(FwdGroup.Proxies) = 0) => FailGrownBy(0)
        /\ h.replies # <<>> => FailGrownBy(0)

C15_Witness ==
    /\ FwdReturned
    /\ h.ret = [code |-> RcodeServerFailure, err |-> "error"]
    /\ Len(FwdGroup.Proxies) = 2
    /\ forwardUpstreamFailTotal[FwdGroup.Name] = 2

\* ----------------------------------------------------- claims on Policy

\* The number of times x occurs in sequence q.
Occurrences(q, x) == Cardinality({i \in 1..Len(q) : q[i] = x})

\* C17: every List call of sequential, round_robin and random, on every
\* pool including the empty one, returns a list of the pool's length with
\* the pool's multiset of elements; sequential returns the pool's order.
C17_ListLaw ==
    pol.calls > 0 =>
        /\ ~pol.panicked
        /\ Len(pol.out) = Len(pol.pool)
        /\ \A x \in ProxyIds : Occurrences(pol.out, x) = Occurrences(pol.pool, x)
        /\ pol.policy = "sequential" => pol.out = pol.pool

\* ------------------------------------------------- claims on the parser

ParseReturned == conf.pc = "done"
ParseSucceeded == ParseReturned /\ ~conf.err

\* A block that says 'action empty' and 'to', or that says no 'to' while its
\* action, given or defaulted, is forward.
BadBlock(said) ==
    \/ said.action = "empty" /\ said.to
    \/ said.action # "empty" /\ ~said.to

\* C18: every Group of a successful parse with action forward has at least
\* one proxy and a non-nil policy, and every Group with action empty has no
\* proxy; and a group block that says 'action empty' and 'to', or no 'to'
\* with action forward (given or by default), yields no Group and makes the
\* parse fail.
C18_GroupShape ==
    /\ \A i \in 1..Len(conf.groups) :
          /\ conf.groups[i].Action \in {"forward", "empty"}
          /\ conf.groups[i].Action = "forward" =>
                (Len(conf.groups[i].Proxies) >= 1 /\ conf.groups[i].Policy # "nil")
          /\ conf.groups[i].Action = "empty" => Len(conf.groups[i].Proxies) = 0
          /\ ~BadBlock(conf.saids[i])
    /\ (conf.pc # "directives" /\ conf.said # <<>> /\ BadBlock(conf.said)) =>
          (ParseReturned /\ conf.err)

C18_Witness ==
    /\ ParseSucceeded
    /\ Len(conf.groups) = 2
    /\ conf.groups[1].Action = "empty"
    /\ conf.groups[2].Action = "forward"
    /\ Len(conf.groups[2].Proxies) = 3
    /\ conf.groups[2].Policy = "round_robin"

\* The positions of the groups named default.
DefaultPositions == {i \in 1..Len(conf.groups) : conf.groups[i].Name = "default"}

\* C19: a parse that read two or more groups named default has failed; and
\* after a successful parse the cached default group is set exactly when one
\* group is named default, and then it is that group.
C19_OneDefault ==
    ParseReturned =>
        /\ Cardinality(DefaultPositions) >= 2 => conf.err
        /\ ~conf.err =>
              /\ conf.defaultGroup # 0 <=> Cardinality(DefaultPositions) = 1
              /\ conf.defaultGroup # 0 => DefaultPositions = {conf.defaultGroup}

C19_Witness ==
    /\ ParseSucceeded
    /\ Len(conf.groups) = 2
    /\ conf.groups[1].Name = "g1"
    /\ conf.defaultGroup = 2

\* ------------------------------------------------ claims on the refresh

\* C20: for every group whose refresh loop OnStartup started, once
\* OnShutdown has been called and has passed the group, the loop
\* eventually exits.
C20_LoopExitsAfterShutdown ==
    \A g \in RefreshGroups :
        (rf.started[g] /\ rf.shutdown >= g) ~> (rf.loop[g] = "exited")

\* ------------------------------------------------ claims on rule sources

\* A value in lower case and dot-terminated.
C21_Normal(v) == ToLower(IF v # <<>> /\ v[Len(v)] = "." THEN v ELSE v \o <<".">>)

\* The rule a line stands for, by the first case that applies: blank line or
\* comment, exception, '||host^', '/re/', hosts-file line, single token.
\* keepRoot tells whether an empty host and the token "." yield a rule.
C21_LineRule(text, keepRoot) ==
    LET t == TrimSpace(text)
        tokens == Fields(t)
        host == TrimSpace(TrimSuffixCaret(SubSeq(t, 3, Len(t))))
    IN  IF t = <<>> \/ t[1] \in {"#", "!"} THEN <<>>
        ELSE IF Len(t) >= 2 /\ t[1] = "@" /\ t[2] = "@" THEN <<>>
        ELSE IF Len(t) >= 2 /\ t[1] = "|" /\ t[2] = "|"
        THEN IF host = <<>> /\ ~keepRoot THEN <<>>
             ELSE <<Rule(RuleDomain, C21_Normal(host))>>
        ELSE IF Len(t) >= 2 /\ t[1] = "/" /\ t[Len(t)] = "/"
        THEN <<Rule(RuleRegex, SubSeq(t, 2, Len(t) - 1))>>
        ELSE IF Len(tokens) >= 2 /\ isIP(tokens[1])
        THEN <<Rule(RuleFull, C21_Normal(tokens[2]))>>
        ELSE IF Len(tokens) = 1
        THEN IF tokens[1] = <<".">> /\ ~keepRoot THEN <<>>
             ELSE <<Rule(RuleFull, C21_Normal(tokens[1]))>>
        ELSE <<>>

\* The rules the first n lines stand for, in line order.
RECURSIVE C21_Rules(_, _, _)
C21_Rules(lines, n, keepRoot) ==
    IF n = 0 THEN <<>>
    ELSE C21_Rules(lines, n - 1, keepRoot) \o C21_LineRule(lines[n], keepRoot)

\* C21 as stated: the rules ParseAdguardRules has emitted are those its
\* lines stand for, case by case and in line order, every '||' line
\* yielding a Domain rule and every single token a Full rule.
C21_ClassifiedAsStated ==
    ing # <<>> /\ ing.path = "adguard" =>
        ing.rules = C21_Rules(ing.input, ing.pos - 1, TRUE)

\* C21: the rules ParseAdguardRules has emitted are those its lines stand
\* for, case by case and in line order, with Domain and Full values in lower
\* case and dot-terminated, a '||' line with an empty host and the single
\* token "." yielding nothing.
C21_Classified ==
    ing # <<>> /\ ing.path = "adguard" =>
        ing.rules = C21_Rules(ing.input, ing.pos - 1, FALSE)

\* A text of two lines was read: a '||' line in upper case, then a
\* hosts-file line.
C21_Witness ==
    /\ ing # <<>> /\ ing.path = "adguard" /\ ing.pc = "done"
    /\ ing.input = << <<"|", "|", "B", ".", "a", "^">>, <<"a", ".", " ", "B">> >>
    /\ ing.rules = <<Rule(RuleDomain, <<"b", ".", "a", ".">>), Rule(RuleFull, <<"b", ".">>)>>


\* Whether pattern p was authored in the source that was read: between the
\* slashes of an AdGuard line, as the value of a catalog entry of type
\* Regex, or after 'regex:' in an inline token (or as its next argument).
\* White space around the authored text is not counted as part of it.
C29_Authored(p) ==
    \E k \in 1..Len(ing.input) :
        LET x == ing.input[k]
        IN  CASE ing.path = "adguard" -> TrimSpace(x) = <<"/">> \o p \o <<"/">>
              [] ing.path = "geosite" -> x[1] = "Regex" /\ TrimSpace(x[2]) = p
              [] ing.path = "inline" ->
                   /\ x.key = "regex:"
                   /\ p = (IF TrimSpace(x.val) = <<>> THEN x.next ELSE TrimSpace(x.val))

\* C29: on every ingest path, every pattern the matcher has compiled is,
\* character for character, a pattern authored in the source.
C29_RegexAsAuthored ==
    (ing # <<>> /\ ing.pc = "done" /\ ~ing.err) =>
        \A i \in 1..Len(ing.m.regex) : C29_Authored(ing.m.regex[i])


\* ------------------------------------------- more claims on the parser

\* C22: an unknown directive makes the parse fail, at the top level and
\* inside a group block: no block that was built held a token that is
\* neither a known directive nor a recognised inline rule form, and once
\* such a token or an unknown top-level directive was read the parse has
\* returned an error.
C22_UnknownDirectiveFails ==
    conf # <<>> =>
        /\ \A i \in 1..Len(conf.saids) : ~conf.saids[i].unknown
        /\ (conf.said # <<>> /\ conf.said.unknown) => (ParseReturned /\ conf.err)
        /\ conf.unknownTop => (ParseReturned /\ conf.err)


\* ------------------------------------------ more claims on the refresh

\* C27: a refresh that fails does not stop the loop. When Update returns,
\* with an error or without, the loop is back at its select, and a failed
\* Update published no matcher; the loop is left only with a schedule that
\* does not parse or through the closed stop channel; and after a failed
\* Update the loop calls Update again unless it is stopped.
C27_FailedRefreshGoesOn ==
    /\ [][\A g \in RefreshGroups :
            (rf.loop[g] = "update" /\ rf'.loop[g] # "update") =>
                /\ rf'.loop[g] = "select"
                /\ rf'.fails[g] > 0 => rf'.published[g] = rf.published[g]]_vars
    /\ [](\A g \in RefreshGroups :
            rf.loop[g] = "exited" =>
                (~rf.cfg[g].valid \/ rf.StopRefresh[g] = "closed"))
    /\ \A g \in RefreshGroups :
          (rf.fails[g] > 0 /\ rf.loop[g] = "select") ~>
              (rf.loop[g] = "update" \/ rf.loop[g] = "exited")

\* Update has failed twice in a row for a group, and its loop waits for the
\* next fire time.
C27_Witness ==
    \E g \in RefreshGroups : rf.fails[g] = 2 /\ rf.loop[g] = "select"


\* ---------------------------------------------- more claims on Update

\* C28: a matcher published by an Update called with only the remote AdGuard
\* source selected, after a matcher published by an Update that read every
\* source, still matches every qname that an inline Domain or Full rule of
\* the group matches.
C28_RefreshKeepsLocalRules ==
    \A k \in 2..Len(stores) :
        (stores[k].mask = {UpdateMatcherAdguardRemote}
            /\ stores[k - 1].mask = UpdateMatcherAll) =>
            \A q \in ReaderNames :
                (\E i \in 1..Len(groups[1].InlineRules) :
                    /\ groups[1].InlineRules[i].Type \in {RuleDomain, RuleFull}
                    /\ RuleMatches(groups[1].InlineRules[i], q)
                    /\ bloomedMatch(stores[k - 1].bm, q))
                    => bloomedMatch(stores[k].bm, q)


\* C30: every matcher Group.Matcher() can return was complete when it was
\* published: the object behind the pointer, and behind every pointer a
\* reader still holds, is built and is the matcher as it was passed to
\* SetMatcher, and no step changes an object that has been published.
C30_PublishedIsFinal ==
    /\ [](/\ \A k \in 1..Len(stores) :
               /\ heap[stores[k].addr].built
               /\ heap[stores[k].addr].bm = stores[k].bm
          /\ Matcher(1) # 0 => \E k \in 1..Len(stores) : stores[k].addr = Matcher(1)
          /\ \A r \in Readers :
               rd[r].loaded # 0 => \E k \in 1..Len(stores) : stores[k].addr = rd[r].loaded)
    /\ [][\A k \in 1..Len(stores) : heap'[stores[k].addr] = heap[stores[k].addr]]_vars

\* A matcher is published, and the next Update has added rules to a new
\* object that is not yet built.
C30_Witness ==
    /\ Len(stores) = 1
    /\ Matcher(1) = stores[1].addr
    /\ upd.pc = "build"
    /\ upd.bmAddr # Matcher(1)
    /\ ~heap[upd.bmAddr].built
    /\ heap[upd.bmAddr].bm # NewBloomedMatcher
    /\ heap[upd.bmAddr].bm # stores[1].bm


\* ------------------------------------------ more claims on forwardGroup

\* C23: once the request's context is cancelled, forwardGroup starts no
\* further Connect call: a pr.Connect call that returns with the context
\* cancelled is not followed by a retry on the same proxy (after
\* ErrCachedClosed or after a truncated reply), and a loop head reached with
\* the context cancelled returns ServerFailure. The Connect call that was
\* under way or about to start when the context was cancelled is left out.
C23_NoRetryAfterCancel ==
    [][/\ (h.pc = "connect" /\ h.fwd.cancelled /\ ForwardConnect) => h'.pc # "connect"
       /\ (h.pc = "fwd" /\ h.fwd.cancelled /\ ForwardLoop) =>
             h'.pc = "done" /\ h'.ret.code = RcodeServerFailure]_vars

\* C24: the retry after a truncated reply goes to the same proxy with
\* ForceTCP set, happens at most once in an attempt and only for a group
\* whose options have PreferUDP set and ForceTCP unset; an attempt that made
\* no such retry runs with the group's own ForceTCP; a reply still truncated
\* after the retry is written to the client if it answers the question; and
\* the group's stored options are never written.
C24_TruncationRetry ==
    /\ [](h.pc \in {"fwd", "connect"} =>
            /\ h.fwd.truncs <= 1
            /\ h.fwd.truncs = 1 =>
                  FwdGroup.Opts.PreferUDP /\ ~FwdGroup.Opts.ForceTCP
            /\ (h.pc = "connect" /\ h.fwd.truncs = 1) =>
                  h.fwd.ForceTCP /\ h.fwd.pr = h.fwd.truncPr
            /\ (h.pc = "connect" /\ h.fwd.truncs = 0) =>
                  h.fwd.ForceTCP = FwdGroup.Opts.ForceTCP)
    /\ [](FwdReturned /\ h.upgraded /\ h.got # NoReq /\ h.got.Truncated
            /\ StateMatch(h.req, h.got) => h.replies = <<h.got>>)
    /\ [][groups' = groups]_vars

\* A group preferring UDP has returned a reply that was still truncated
\* after the retry over TCP.
C24_Witness ==
    /\ FwdReturned
    /\ FwdGroup.Opts.PreferUDP /\ ~FwdGroup.Opts.ForceTCP
    /\ h.upgraded
    /\ h.got # NoReq /\ h.got.Truncated
    /\ h.replies = <<h.got>>

\* C25: a proxy that reports Down is tried only when every proxy of the pool
\* has reported Down in the current pass; the count of Down proxies is the
\* number of proxies that reported Down in the current pass, so it starts
\* from zero in every pass; the attempt made when all are Down goes to
\* list[0]; and after that attempt the call either retries the same proxy or
\* returns, with ServerFailure when it wrote no reply.
C25_DownSkippedUntilAllDown ==
    /\ [](h.pc \in {"fwd", "connect"} =>
            /\ ~h.fwd.blindPick
            /\ h.fwd.fails = Cardinality(h.fwd.downSeen)
            /\ (h.pc = "connect" /\ h.fwd.fails >= Len(FwdGroup.Proxies)) =>
                  /\ h.fwd.pr = h.fwd.list[1]
                  /\ h.fwd.downSeen = Range(FwdGroup.Proxies))
    /\ [][(h.pc = "connect" /\ h.fwd.fails >= Len(FwdGroup.Proxies)) =>
            /\ h'.pc \in {"connect", "done"}
            /\ (h'.pc = "done" /\ h'.replies = <<>>) =>
                  h'.ret.code = RcodeServerFailure]_vars

\* Both proxies of a pool of two reported Down in this pass, and the attempt
\* on list[0] is under way.
C25_Witness ==
    /\ h.pc = "connect"
    /\ Len(FwdGroup.Proxies) = 2
    /\ h.fwd.fails = 2
    /\ h.fwd.downSeen = {1, 2}
    /\ h.fwd.pr = h.fwd.list[1]

\* ---------------------------------------------- more claims on Policy

\* C26: a round_robin List call on a pool of n >= 1 proxies returns the pool
\* rotated to start at i = counter mod n, element j of the result being
\* p[(i + j) mod n], and over any n consecutive calls every proxy comes
\* first exactly once.
C26_RoundRobinRotation ==
    (pol.policy = "round_robin" /\ pol.calls > 0 /\ Len(pol.pool) >= 1) =>
        LET n == Len(pol.pool)
            i == pol.robin % n
            c == Len(pol.firsts)
        IN  /\ \A j \in 0..(n - 1) : pol.out[j + 1] = pol.pool[((i + j) % n) + 1]
            /\ c >= n =>
                  \A x \in Range(pol.pool) :
                      Cardinality({k \in (c - n + 1)..c : pol.firsts[k] = x}) = 1

====
